---------------------------- MODULE Spec2Model ----------------------------
(***************************************************************************)
(* MeetingSync transcript analysis: MeetingProcessor                       *)
(* (src/src/services/meeting-processor.js) and TextProcessor               *)
(* (src/src/services/TextProcessor.js).                                    *)
(*                                                                         *)
(* A JavaScript string is a sequence of one-character strings.  Offsets    *)
(* into strings are JavaScript's (0-based): CharAt(s, 0) is the first      *)
(* character.  Confidence values are kept in hundredths (0.5 is 50), the   *)
(* sentence scores of the summary generators in tenths.                    *)
(***************************************************************************)
EXTENDS Integers, Sequences, FiniteSets, TLC

VARIABLES
    pc,           \* which operation, if any, has been applied to the input
    transcript,   \* the text handed to the operation
    \* ticket mentions
    mentions,     \* MeetingProcessor.extractTicketMentions: mentionDetails
    tpMentions,   \* TextProcessor.extractTicketMentions: mentions
    \* confidence scores
    confidence,   \* the value a confidence function returned
    \* removal of duplicates
    kind,         \* "actions" or "decisions": which list is deduplicated
    candidates,   \* actionItems / decisions: the list handed to removeDuplicate...
    similar,      \* fuse.search: for each text, the texts the search reports
    unique,       \* the list removeDuplicate... returned
    \* summaries
    maxLength,    \* generateBasicSummary: maxLength
    lastIndex,    \* TextProcessor: this.ticketPattern.lastIndex
    topSentences, \* topSentences: the indices of the selected sentences, as emitted
    summary,      \* the summary returned
    \* processMeeting / analyzeTranscript
    argType,      \* typeof of the transcript argument ("null" for null)
    tier,         \* processMeeting: tier
    library,      \* how fuse.js and nlp-compromise behave during the call
    outcome,      \* "returned" or "thrown"
    result,       \* the object returned
    contextTicket, \* processForTicketContext: ticketId
    \* a TextProcessor used for several calls
    calls,        \* the number of calls made on the instance
    \* the uploadMeetingFile resolver
    file,         \* req.payload.file
    mcpEnabled,   \* JiraService.mcpEnabled
    db,           \* the tables and the storage MeetingService writes
    processedMeeting, \* processedMeeting, once a process... call has returned
    jira,         \* what became of updateTicketWithMeetingContext
    response,     \* what the resolver returned
    \* withRetry
    maxRetries,   \* withRetry: maxRetries
    delay,        \* withRetry: delay
    attempt,      \* withRetry: attempt
    lastError,    \* withRetry: lastError
    fnCalls,      \* the calls of fn so far: what each returned or threw
    timers,       \* the delays handed to setTimeout so far
    \* the rate limiters
    now,          \* Date.now()
    requests,     \* RateLimiter.requests / the Map rateLimiter of index.js
    admitted,     \* for each key, the times of the calls let through so far
    \* the resolvers that write to the Forge storage
    storage,      \* @forge/api storage: the value stored under each key
    invocations,  \* the resolver calls in progress: where each is, what it read
    responses     \* what the calls that have ended returned

ticketVars == <<mentions, tpMentions>>
confVars   == <<confidence>>
dedupVars  == <<kind, candidates, similar, unique>>
summaryVars == <<maxLength, lastIndex, topSentences, summary>>
pipelineVars == <<argType, tier, library, outcome, result, contextTicket>>
uploadVars == <<file, mcpEnabled, db, processedMeeting, jira, response>>
retryVars == <<maxRetries, delay, attempt, lastError, fnCalls, timers>>
limiterVars == <<now, requests, admitted>>
storageVars == <<storage, invocations, responses>>
laterVars == <<retryVars, limiterVars, storageVars>>
otherVars == <<calls, uploadVars, laterVars>>
vars == <<pc, transcript, ticketVars, confVars, dedupVars, summaryVars, pipelineVars,
          otherVars>>

\* the values of the variables an operation does not use
TicketIdle == mentions = <<>> /\ tpMentions = <<>>
ConfIdle   == confidence = 0
DedupIdle  == kind = "none" /\ candidates = <<>> /\ similar = <<>> /\ unique = <<>>
\* a new TextProcessor: the lastIndex of its ticketPattern is 0
SummaryIdle ==
    maxLength = 0 /\ lastIndex = 0 /\ topSentences = <<>> /\ summary = <<>>
\* the libraries work, and find nothing but what they are asked for
Dependable == [fault |-> "none", fuse |-> "exact", verbs |-> FALSE, nouns |-> FALSE]
PipelineIdle ==
    /\ argType = "string"
    /\ tier = "basic"
    /\ library = Dependable
    /\ outcome = "none"
    /\ result = <<>>
    /\ contextTicket = <<>>

NoFile == [present |-> FALSE, type |-> "undefined", name |-> "undefined"]
NoMeeting == [id |-> 0]
EmptyDb == [meetings |-> {}, ticket_mentions |-> {}, processing_queue |-> {},
            storage |-> {}]
JiraUntouched == [mcp |-> "none", rest |-> "none"]
NoResponse == [success |-> FALSE, error |-> "none"]
UploadIdle ==
    /\ file = NoFile
    /\ mcpEnabled = FALSE
    /\ db = EmptyDb
    /\ processedMeeting = NoMeeting
    /\ jira = JiraUntouched
    /\ response = NoResponse
Undefined == "undefined"
RetryIdle ==
    /\ maxRetries = 0
    /\ delay = 0
    /\ attempt = 0
    /\ lastError = Undefined
    /\ fnCalls = <<>>
    /\ timers = <<>>
LimiterIdle == now = 0 /\ requests = <<>> /\ admitted = <<>>
StorageIdle == storage = <<>> /\ invocations = <<>> /\ responses = {}
LaterIdle == RetryIdle /\ LimiterIdle /\ StorageIdle
OtherIdle == calls = 0 /\ UploadIdle /\ LaterIdle

---------------------------------------------------------------------------
(* Characters and strings                                                  *)

UpperSeq == <<"A","B","C","D","E","F","G","H","I","J","K","L","M",
              "N","O","P","Q","R","S","T","U","V","W","X","Y","Z">>
LowerSeq == <<"a","b","c","d","e","f","g","h","i","j","k","l","m",
              "n","o","p","q","r","s","t","u","v","w","x","y","z">>

Range(f) == {f[i] : i \in DOMAIN f}
Min(S) == CHOOSE x \in S : \A y \in S : x <= y
Max(S) == CHOOSE x \in S : \A y \in S : x >= y

UpperChars == Range(UpperSeq)
LowerChars == Range(LowerSeq)
DigitChars == {"0","1","2","3","4","5","6","7","8","9"}
LetterChars == UpperChars \cup LowerChars
\* \w of a JavaScript regular expression
WordChars == LetterChars \cup DigitChars \cup {"_"}
\* \s of a JavaScript regular expression (the members the inputs draw on)
SpaceChars == {" ", "\t", "\n"}

ToLowerChar(c) ==
    IF c \in UpperChars
    THEN LowerSeq[CHOOSE i \in DOMAIN UpperSeq : UpperSeq[i] = c]
    ELSE c
ToUpperChar(c) ==
    IF c \in LowerChars
    THEN UpperSeq[CHOOSE i \in DOMAIN LowerSeq : LowerSeq[i] = c]
    ELSE c
\* String.prototype.toLowerCase / toUpperCase
ToLowerCase(s) == [i \in 1..Len(s) |-> ToLowerChar(s[i])]
ToUpperCase(s) == [i \in 1..Len(s) |-> ToUpperChar(s[i])]

\* s.charAt(i), 0-based
CharAt(s, i) == s[i + 1]
\* s.substring(a, b) for 0 <= a, b: the characters at offsets a .. b-1
Substring(s, a, b) ==
    LET lo == Min({Min({a, b}), Len(s)})
        hi == Min({Max({a, b}), Len(s)})
    IN  SubSeq(s, lo + 1, hi)
\* does sub occur in s at offset i
OccursAt(s, sub, i) ==
    /\ i >= 0
    /\ i + Len(sub) <= Len(s)
    /\ \A j \in 1..Len(sub) : s[i + j] = sub[j]
\* does the lower-case word occur in s at offset i, whatever the case (flag i)
OccursAtNoCase(s, word, i) ==
    /\ i >= 0
    /\ i + Len(word) <= Len(s)
    /\ \A j \in 1..Len(word) : ToLowerChar(s[i + j]) = word[j]
\* s.includes(sub)
Includes(s, sub) == \E i \in 0..(Len(s) - Len(sub)) : OccursAt(s, sub, i)
\* s.trim()
Trim(s) ==
    LET keep == {i \in 1..Len(s) : s[i] \notin SpaceChars}
    IN  IF keep = {} THEN <<>> ELSE SubSeq(s, Min(keep), Max(keep))
\* the length of the longest run of characters of class C starting at offset i
RunLen(s, i, C) ==
    IF i >= Len(s) THEN 0
    ELSE Min({j \in i..Len(s) : j = Len(s) \/ CharAt(s, j) \notin C}) - i
\* \b at offset i: exactly one of the characters before and after is a \w
WordBoundary(s, i) ==
    LET before == i > 0 /\ CharAt(s, i - 1) \in WordChars
        after  == i < Len(s) /\ CharAt(s, i) \in WordChars
    IN  before # after
\* the k-th smallest member of a finite set of numbers, k = 1 ..
Nth(S, k) == CHOOSE x \in S : Cardinality({y \in S : y < x}) = k - 1
\* the members of a finite set of numbers in increasing order
Sorted(S) == [k \in 1..Cardinality(S) |-> Nth(S, k)]

RECURSIVE Concat(_)
\* the concatenation of a sequence of strings
Concat(ss) == IF ss = <<>> THEN <<>> ELSE Head(ss) \o Concat(Tail(ss))

RECURSIVE Join(_, _)
\* Array.prototype.join
Join(ss, sep) ==
    IF ss = <<>> THEN <<>>
    ELSE IF Len(ss) = 1 THEN ss[1]
    ELSE ss[1] \o sep \o Join(Tail(ss), sep)

\* s.split(re) for a regular expression re = [C]+ : the pieces between the
\* maximal runs of characters of C, empty first and last pieces included
SplitRuns(s, C) ==
    LET starts == {i \in 1..Len(s) : s[i] \in C /\ (i = 1 \/ s[i-1] \notin C)}
        ends   == {i \in 1..Len(s) : s[i] \in C /\ (i = Len(s) \/ s[i+1] \notin C)}
        n      == Cardinality(starts)
        from(k) == IF k = 1 THEN 1 ELSE Nth(ends, k - 1) + 1
        to(k)   == IF k = n + 1 THEN Len(s) ELSE Nth(starts, k) - 1
    IN  [k \in 1..(n + 1) |-> SubSeq(s, from(k), to(k))]
\* s.split(c) for a one-character string c
SplitChar(s, c) ==
    LET at == {i \in 1..Len(s) : s[i] = c}
        n  == Cardinality(at)
        from(k) == IF k = 1 THEN 1 ELSE Nth(at, k - 1) + 1
        to(k)   == IF k = n + 1 THEN Len(s) ELSE Nth(at, k) - 1
    IN  [k \in 1..(n + 1) |-> SubSeq(s, from(k), to(k))]

\* the sentence terminators of /[.!?]+/
Terminators == {".", "!", "?"}

---------------------------------------------------------------------------
(* MeetingProcessor: ticket mentions                                        *)

\* an alternation of literal words between word boundaries, flag i, as in
\* /\b(fix|close|...)\b/i.test(s)
TestWords(s, words) ==
    \E w \in words : \E i \in 0..(Len(s) - Len(w)) :
        /\ OccursAtNoCase(s, w, i)
        /\ WordBoundary(s, i)
        /\ WordBoundary(s, i + Len(w))

MentionIndicators ==
    <<
    {<<"f","i","x">>, <<"c","l","o","s","e">>,
     <<"r","e","s","o","l","v","e">>, <<"c","o","m","p","l","e","t","e">>,
     <<"i","m","p","l","e","m","e","n","t">>,
     <<"w","o","r","k"," ","o","n">>, <<"u","p","d","a","t","e">>,
     <<"r","e","v","i","e","w">>},
    {<<"b","u","g">>, <<"i","s","s","u","e">>, <<"t","a","s","k">>,
     <<"s","t","o","r","y">>, <<"e","p","i","c">>},
    {<<"j","i","r","a">>, <<"t","i","c","k","e","t">>, <<"c","a","r","d">>},
    {<<"a","s","s","i","g","n","e","d">>,
     <<"r","e","s","p","o","n","s","i","b","l","e">>,
     <<"o","w","n","e","r">>}
    >>

\* confidence = base; for each indicator that tests true, confidence += step;
\* Math.min(confidence, 1.0)
IndicatorConfidence(text, base, step, indicators) ==
    LET hits == {k \in DOMAIN indicators : TestWords(text, indicators[k])}
    IN  Min({base + step * Cardinality(hits), 100})

calculateMentionConfidence(context, ticketId) ==
    IndicatorConfidence(context, 50, 10, MentionIndicators)

ActionIndicators ==
    <<
    {<<"w","i","l","l">>, <<"m","u","s","t">>, <<"s","h","o","u","l","d">>,
     <<"n","e","e","d"," ","t","o">>, <<"h","a","v","e"," ","t","o">>},
    {<<"b","y">>, <<"d","u","e">>, <<"d","e","a","d","l","i","n","e">>,
     <<"b","e","f","o","r","e">>},
    {<<"a","s","s","i","g","n">>,
     <<"r","e","s","p","o","n","s","i","b","l","e">>,
     <<"o","w","n","e","r">>},
    {<<"a","c","t","i","o","n">>, <<"t","a","s","k">>, <<"t","o","d","o">>,
     <<"f","o","l","l","o","w"," ","u","p">>}
    >>
DecisionIndicators ==
    <<
    {<<"d","e","c","i","d","e","d">>, <<"a","g","r","e","e","d">>,
     <<"c","o","n","c","l","u","d","e","d">>,
     <<"d","e","t","e","r","m","i","n","e","d">>},
    {<<"f","i","n","a","l">>,
     <<"f","i","n","a","l"," ","d","e","c","i","s","i","o","n">>,
     <<"c","o","n","s","e","n","s","u","s">>},
    {<<"a","p","p","r","o","v","e","d">>,
     <<"a","c","c","e","p","t","e","d">>, <<"c","h","o","s","e","n">>,
     <<"s","e","l","e","c","t","e","d">>},
    {<<"g","o","i","n","g"," ","w","i","t","h">>,
     <<"m","o","v","i","n","g"," ","f","o","r","w","a","r","d">>}
    >>

calculateActionConfidence(action) ==
    IndicatorConfidence(action, 30, 15, ActionIndicators)

calculateDecisionConfidence(decision) ==
    IndicatorConfidence(decision, 40, 10, DecisionIndicators)

ContextRadius == 150
extractMentionContext(text, position, ticketId) ==
    LET start == Max({0, position - ContextRadius})
        end   == Min({Len(text), position + Len(ticketId) + ContextRadius})
    IN  Trim(Substring(text, start, end))

\* The patterns of extractTicketMentions, in the order of the array:
\*   1  /\b([A-Z]{2,10}-\d+)\b/g        2  /\bticket\s+([A-Z]{2,10}-\d+)/gi
\*   3  /\bissue\s+([A-Z]{2,10}-\d+)/gi  4  /\b([A-Z]{2,10})\s+(\d+)\b/g
TicketPatterns == 1..4
KeyMin == 2
KeyMax == 10
\* the literal word a pattern starts with
PatternWord(p) ==
    CASE p = 2 -> <<"t","i","c","k","e","t">>
      [] p = 3 -> <<"i","s","s","u","e">>
      [] OTHER -> <<>>
\* flag i: the literal word and [A-Z] match letters of either case
PatternIgnoresCase(p) == p \in {2, 3}
PatternKeyChars(p) == IF PatternIgnoresCase(p) THEN LetterChars ELSE UpperChars
\* the pattern ends with \b
PatternEndsAtBoundary(p) == p \in {1, 4}

\* The ways pattern p matches at offset i: the number w of \s characters taken,
\* the number k of [A-Z] characters and the number d of \d characters.
PatternCandidates(p, s, i) ==
    LET word     == PatternWord(p)
        a        == i + Len(word)                  \* after the literal word
        text     == IF PatternIgnoresCase(p) THEN ToLowerCase(s) ELSE s
        W1       == IF p \in {2, 3} THEN 1..RunLen(s, a, SpaceChars) ELSE {0}
        K(b)     == KeyMin..Min({KeyMax, RunLen(s, b, PatternKeyChars(p))})
        W2(c)    == IF p = 4 THEN 1..RunLen(s, c, SpaceChars) ELSE {0}
        SepOk(c) == p = 4 \/ (c < Len(s) /\ CharAt(s, c) = "-")
        NumAt(c, w2) == IF p = 4 THEN c + w2 ELSE c + 1
        D(e)     == {d \in 1..RunLen(s, e, DigitChars) :
                        PatternEndsAtBoundary(p) => WordBoundary(s, e + d)}
    IN  IF ~ WordBoundary(s, i) \/ ~ OccursAt(text, word, i)
        THEN {}
        ELSE UNION { UNION { UNION {
               IF ~ SepOk(a + w1 + k) THEN {}
               ELSE { [w |-> w1 + w2, k |-> k, d |-> d,
                       keyAt |-> a + w1, numAt |-> NumAt(a + w1 + k, w2)] :
                      d \in D(NumAt(a + w1 + k, w2)) }
               : w2 \in W2(a + w1 + k) } : k \in K(a + w1) } : w1 \in W1 }

\* Quantifiers are greedy: of the ways to match at one offset the expression
\* takes the one with the longest earlier part.
PatternPriority(p, c) == IF p = 4 THEN <<c.k, c.w, c.d>> ELSE <<c.w, c.k, c.d>>
LexGreater(x, y) ==
    \E n \in 1..3 : x[n] > y[n] /\ \A m \in 1..(n - 1) : x[m] = y[m]

\* the match of pattern p at offset i as exec returns it: index, the capture
\* groups 1 and 2 (<<>>, falsy like undefined, for a group the pattern lacks)
\* and the offset after the match; {} when there is no match at i
PatternMatchAt(p, s, i) ==
    LET cands == PatternCandidates(p, s, i)
    IN  IF cands = {} THEN {}
        ELSE LET c == CHOOSE x \in cands : \A y \in cands :
                        ~ LexGreater(PatternPriority(p, y), PatternPriority(p, x))
                 end == c.numAt + c.d
             IN  { [index |-> i,
                    g1 |-> IF p = 4 THEN Substring(s, c.keyAt, c.keyAt + c.k)
                                    ELSE Substring(s, c.keyAt, end),
                    g2 |-> IF p = 4 THEN Substring(s, c.numAt, end) ELSE <<>>,
                    end |-> end] }

RECURSIVE PatternMatchesFrom(_, _, _)
\* while ((match = pattern.exec(transcript)) !== null): the matches of a
\* global pattern from start on, each search starting where the last ended
PatternMatchesFrom(p, s, start) ==
    LET hits == {i \in start..Len(s) : PatternMatchAt(p, s, i) # {}}
    IN  IF start > Len(s) \/ hits = {} THEN <<>>
        ELSE LET m == CHOOSE x \in PatternMatchAt(p, s, Min(hits)) : TRUE
             IN  <<m>> \o PatternMatchesFrom(p, s, m.end)

\* the ticket id of one match
MatchTicketId(m) ==
    IF m.g1 # <<>> /\ m.g2 # <<>> THEN m.g1 \o <<"-">> \o m.g2 ELSE m.g1

RECURSIVE CollectMentions(_, _, _, _)
\* the body of the loops: seen is the Set mentions, details is mentionDetails
CollectMentions(s, ms, seen, details) ==
    IF ms = <<>> THEN details
    ELSE LET m == Head(ms)
             ticketId == MatchTicketId(m)
         IN  IF ticketId # <<>> /\ ticketId \notin seen
             THEN LET context == extractMentionContext(s, m.index, ticketId)
                  IN  CollectMentions(s, Tail(ms), seen \cup {ticketId},
                        Append(details,
                          [ticketId |-> ticketId,
                           context |-> context,
                           position |-> m.index,
                           confidence |-> calculateMentionConfidence(context, ticketId)]))
             ELSE CollectMentions(s, Tail(ms), seen, details)

\* for (const pattern of patterns): every match of pattern 1, then of 2, 3, 4
extractTicketMentions(s) ==
    CollectMentions(s,
        Concat([p \in TicketPatterns |-> PatternMatchesFrom(p, s, 0)]),
        {}, <<>>)

---------------------------------------------------------------------------
(* TextProcessor: ticket mentions                                          *)

ActionWords ==
    {<<"w","i","l","l">>, <<"s","h","o","u","l","d">>,
     <<"n","e","e","d"," ","t","o">>, <<"m","u","s","t">>,
     <<"t","o","d","o">>, <<"a","c","t","i","o","n">>,
     <<"a","s","s","i","g","n">>, <<"f","o","l","l","o","w"," ","u","p">>}
DecisionWords ==
    {<<"d","e","c","i","d","e","d">>, <<"a","g","r","e","e","d">>,
     <<"c","o","n","c","l","u","s","i","o","n">>, <<"f","i","n","a","l">>,
     <<"r","e","s","o","l","v","e","d">>,
     <<"d","e","t","e","r","m","i","n","e","d">>}
PositiveWords ==
    {<<"g","o","o","d">>, <<"g","r","e","a","t">>,
     <<"e","x","c","e","l","l","e","n","t">>,
     <<"p","o","s","i","t","i","v","e">>, <<"s","u","c","c","e","s","s">>,
     <<"c","o","m","p","l","e","t","e">>, <<"d","o","n","e">>,
     <<"r","e","s","o","l","v","e","d">>}
NegativeWords ==
    {<<"b","a","d">>, <<"p","r","o","b","l","e","m">>,
     <<"i","s","s","u","e">>, <<"f","a","i","l">>, <<"b","l","o","c","k">>,
     <<"s","t","u","c","k">>, <<"d","i","f","f","i","c","u","l","t">>,
     <<"c","o","n","c","e","r","n">>}

\* this.ticketPattern = /\b([A-Z][A-Z0-9]*-\d+)\b/g : the offset after the
\* match at offset i, {} when there is none
TicketPatternMatchAt(s, i) ==
    IF ~ (WordBoundary(s, i) /\ i < Len(s) /\ CharAt(s, i) \in UpperChars)
    THEN {}
    ELSE LET c == i + 1 + RunLen(s, i + 1, UpperChars \cup DigitChars)
             D == {d \in 1..RunLen(s, c + 1, DigitChars) : WordBoundary(s, c + 1 + d)}
         IN  IF c < Len(s) /\ CharAt(s, c) = "-" /\ D # {}
             THEN {c + 1 + Max(D)}
             ELSE {}

\* RegExp.prototype.exec / test of ticketPattern from start: the offset of
\* the first match at or after start and the offset after it; {} for null
TicketPatternExec(s, start) ==
    LET hits == {i \in start..Len(s) : TicketPatternMatchAt(s, i) # {}}
    IN  IF start > Len(s) \/ hits = {} THEN {}
        ELSE {[index |-> Min(hits), end |-> e] :
                e \in TicketPatternMatchAt(s, Min(hits))}

RECURSIVE TicketPatternMatches(_, _)
\* transcript.match(this.ticketPattern): every match, searched from start
TicketPatternMatches(s, start) ==
    LET found == TicketPatternExec(s, start)
    IN  IF found = {} THEN <<>>
        ELSE LET m == CHOOSE x \in found : TRUE
             IN  <<Substring(s, m.index, m.end)>> \o TicketPatternMatches(s, m.end)

RECURSIVE Unique(_, _)
\* [...new Set(xs)]: the first occurrence of each value, in order
Unique(xs, seen) ==
    IF xs = <<>> THEN <<>>
    ELSE IF Head(xs) \in seen THEN Unique(Tail(xs), seen)
    ELSE <<Head(xs)>> \o Unique(Tail(xs), seen \cup {Head(xs)})

extractTicketContext(text, ticketId) ==
    LET sentences == SplitRuns(text, Terminators)
        n == Len(sentences)
        around(i) ==
            IF ~ Includes(sentences[i], ticketId) THEN <<>>
            ELSE (IF i > 1 THEN <<sentences[i - 1]>> ELSE <<>>)
                 \o <<sentences[i]>>
                 \o (IF i < n THEN <<sentences[i + 1]>> ELSE <<>>)
        contextSentences == Concat([i \in 1..n |-> around(i)])
    IN  Trim(Join(contextSentences, <<".", " ">>))

\* the value before the final Math.min of calculateConfidence
RawConfidence(context) ==
    LET wordCount == Len(SplitChar(context, " "))
        hasActionWords == \E word \in ActionWords : Includes(ToLowerCase(context), word)
        base == Min({wordCount * 5, 100})           \* Math.min(wordCount / 20, 1)
    IN  IF hasActionWords THEN base + 20 ELSE base

\* calculateConfidence without the final Math.min(confidence, 1)
calculateConfidence_NoClamp(context) == RawConfidence(context)

calculateConfidence(context) == Min({RawConfidence(context), 100})

RECURSIVE CountMatches(_, _, _)
\* (lowerText.match(new RegExp(word, 'g')) || []).length
CountMatches(s, word, from) ==
    LET hits == {i \in from..(Len(s) - Len(word)) : OccursAt(s, word, i)}
    IN  IF hits = {} THEN 0
        ELSE 1 + CountMatches(s, word, Min(hits) + Len(word))

RECURSIVE SumOver(_, _, _)
SumOver(s, words, done) ==
    IF words = done THEN 0
    ELSE LET w == CHOOSE x \in words \ done : TRUE
         IN  CountMatches(s, w, 0) + SumOver(s, words, done \cup {w})

\* score / Math.max(wordCount * 0.1, 1), as the fraction <<numerator,
\* denominator>> with a positive denominator
RawSentiment(text) ==
    LET lowerText == ToLowerCase(text)
        score == SumOver(lowerText, PositiveWords, {})
                 - SumOver(lowerText, NegativeWords, {})
        wordCount == Len(SplitChar(text, " "))
    IN  <<score * 10, Max({wordCount, 10})>>

\* analyzeSentiment without Math.max(-1, Math.min(1, ...))
analyzeSentiment_NoClamp(text) == RawSentiment(text)

\* the value clamped to [-1, 1]
analyzeSentiment(text) ==
    LET raw == RawSentiment(text)
    IN  IF raw[1] >= raw[2] THEN <<1, 1>>
        ELSE IF raw[1] <= 0 - raw[2] THEN <<-1, 1>>
        ELSE raw

\* the catch branch of analyzeSentiment: return 0
SentimentOnError == <<0, 1>>

TP_extractTicketMentions(text) ==
    LET matches == TicketPatternMatches(text, 0)
        uniqueTickets == Unique(matches, {})
    IN  [i \in 1..Len(uniqueTickets) |->
            LET context == extractTicketContext(text, uniqueTickets[i])
            IN  [ticketId |-> uniqueTickets[i],
                 context |-> context,
                 confidence |-> calculateConfidence(context),
                 sentiment |-> analyzeSentiment(context)]]

---------------------------------------------------------------------------
(* Ticket extraction applied to bounded transcripts                        *)

\* the sequences over S of length at most n
SeqsUpTo(S, n) == UNION {[1..k -> S] : k \in 0..n}

MaxPieces == 3
TicketPieces ==
    {<<"A","B","-","1"," ">>, <<"a","b","-","1"," ">>,
     <<"t","i","c","k","e","t"," ">>, <<"i","s","s","u","e"," ">>,
     <<"A","B"," ","1"," ">>, <<"C","D","-","2"," ">>, <<"B","-","2"," ">>,
     <<"x">>, <<"A","B","C","D","E","F","G","H","I","J","K","-","3"," ">>,
     <<"f","i","x","."," ">>}
TicketInputs == {Concat(ps) : ps \in SeqsUpTo(TicketPieces, MaxPieces)}

notTicketVars ==
    <<confVars, dedupVars, maxLength, topSentences, summary, pipelineVars, otherVars>>

InitTickets ==
    /\ pc = "input"
    /\ OtherIdle
    /\ transcript \in TicketInputs
    /\ TicketIdle
    /\ ConfIdle
    /\ DedupIdle
    /\ SummaryIdle
    /\ PipelineIdle

MPExtractTicketMentions ==
    /\ pc = "input"
    /\ pc' = "mentions"
    /\ mentions' = extractTicketMentions(transcript)
    /\ UNCHANGED <<transcript, tpMentions, lastIndex, notTicketVars>>

TPExtractTicketMentions ==
    /\ pc = "input"
    /\ pc' = "tpMentions"
    /\ tpMentions' = TP_extractTicketMentions(transcript)
    /\ lastIndex' = 0       \* String.prototype.match leaves a global pattern at 0
    /\ UNCHANGED <<transcript, mentions, notTicketVars>>

NextTickets == MPExtractTicketMentions \/ TPExtractTicketMentions

SpecTickets == InitTickets /\ [][NextTickets]_vars

---------------------------------------------------------------------------
(* The confidence functions applied to bounded texts                       *)

\* the words the texts are built from: each may be present or not
ConfidencePieces ==
    <<<<"f","i","x"," ">>, <<"t","a","s","k"," ">>, <<"j","i","r","a"," ">>,
      <<"o","w","n","e","r"," ">>, <<"w","i","l","l"," ">>, <<"b","y"," ">>,
      <<"d","e","c","i","d","e","d"," ">>, <<"f","i","n","a","l"," ">>,
      <<"c","h","o","s","e","n"," ">>,
      <<"g","o","i","n","g"," ","w","i","t","h"," ">>>>
\* eight words that are no indicator, repeated up to MaxFill times
Filler == <<"a"," ","b"," ","c"," ","d"," ","e"," ","f"," ","g"," ","h"," ">>
MaxFill == 2

ConfidenceText(present, fill) ==
    Trim(Concat([i \in DOMAIN ConfidencePieces |->
                    IF i \in present THEN ConfidencePieces[i] ELSE <<>>])
         \o Concat([i \in 1..fill |-> Filler]))
ConfidenceInputs ==
    {ConfidenceText(present, fill) :
        present \in SUBSET DOMAIN ConfidencePieces, fill \in 0..MaxFill}

notConfVars ==
    <<ticketVars, dedupVars, summaryVars, pipelineVars, otherVars>>

InitConfidence ==
    /\ pc = "input"
    /\ OtherIdle
    /\ transcript \in ConfidenceInputs
    /\ ConfIdle
    /\ TicketIdle
    /\ DedupIdle
    /\ SummaryIdle
    /\ PipelineIdle

MentionConfidence ==
    /\ pc = "input"
    /\ pc' = "mentionConfidence"
    /\ confidence' = calculateMentionConfidence(transcript, <<>>)
    /\ UNCHANGED <<transcript, notConfVars>>

ActionConfidence ==
    /\ pc = "input"
    /\ pc' = "actionConfidence"
    /\ confidence' = calculateActionConfidence(transcript)
    /\ UNCHANGED <<transcript, notConfVars>>

DecisionConfidence ==
    /\ pc = "input"
    /\ pc' = "decisionConfidence"
    /\ confidence' = calculateDecisionConfidence(transcript)
    /\ UNCHANGED <<transcript, notConfVars>>

ContextConfidence ==
    /\ pc = "input"
    /\ pc' = "contextConfidence"
    /\ confidence' = calculateConfidence(transcript)
    /\ UNCHANGED <<transcript, notConfVars>>

NextConfidence ==
    MentionConfidence \/ ActionConfidence \/ DecisionConfidence \/ ContextConfidence

SpecConfidence == InitConfidence /\ [][NextConfidence]_vars

\* C2: every confidence value produced for a ticket mention, an action item
\* or a decision lies in [0, 1] (0 .. 100 hundredths).
C2_ConfidenceInUnitInterval ==
    pc \in {"mentionConfidence", "actionConfidence", "decisionConfidence",
            "contextConfidence"}
        => confidence >= 0 /\ confidence <= 100

\* the clamp of calculateConfidence has acted: the unclamped value was over 1
C2_Witness ==
    /\ pc = "contextConfidence"
    /\ RawConfidence(transcript) > 100
    /\ confidence = 100

---------------------------------------------------------------------------
(* MeetingProcessor: removal of duplicate action items and decisions       *)
(*                                                                         *)
(* An entry is [text, confidence]; text stands for the key the Fuse index  *)
(* is built on (action, decision).  fuse.search is the library's: sim      *)
(* gives, for each text searched for, the texts of the entries it reports. *)
(* The order of its results is the library's too, so where that order      *)
(* decides, every outcome is kept: the functions return a set of lists.    *)

\* Array.prototype.sort left out of removeDuplicates: the list as the loop
\* built it
SortByConfidenceDesc_Unsorted(items) == items

\* Array.prototype.sort((a, b) => b.confidence - a.confidence), stable
SortByConfidenceDesc(items) ==
    LET before(i) == {j \in DOMAIN items :
                        \/ items[j].confidence > items[i].confidence
                        \/ items[j].confidence = items[i].confidence /\ j < i}
    IN  [n \in DOMAIN items |->
            items[CHOOSE i \in DOMAIN items : Cardinality(before(i)) = n - 1]]

RECURSIVE DedupFrom(_, _, _, _, _)
\* the for loop from entry i on: processed is the Set, uniq the array unique
DedupFrom(items, sim, i, processed, uniq) ==
    IF i > Len(items) THEN {uniq}
    ELSE IF items[i].text \in processed
         THEN DedupFrom(items, sim, i + 1, processed, uniq)
         ELSE LET item    == items[i]
                  results == {r \in Range(items) : r.text \in sim[item.text]}
                  top     == Max({r.confidence : r \in results \cup {item}})
                  \* bestItem changes only for a strictly greater confidence
                  bests   == IF item.confidence = top THEN {item}
                             ELSE {r \in results : r.confidence = top}
              IN  UNION { DedupFrom(items, sim, i + 1,
                                    processed \cup {r.text : r \in results},
                                    Append(uniq, b)) : b \in bests }

removeDuplicates(items, sim) ==
    IF Len(items) <= 1 THEN {items}
    ELSE {SortByConfidenceDesc(u) : u \in DedupFrom(items, sim, 1, {}, <<>>)}

removeDuplicateActions(actionItems, sim) == removeDuplicates(actionItems, sim)
removeDuplicateDecisions(decisions, sim) == removeDuplicates(decisions, sim)

---------------------------------------------------------------------------
(* Removal of duplicates applied to bounded lists                          *)

Texts == {"A", "B", "C"}
MaxCandidates == 3
\* base + step * hits for 0 .. 2 hits
ConfidenceLevels(k) == IF k = "actions" THEN {30, 45, 60} ELSE {40, 50, 60}

notDedupVars ==
    <<ticketVars, confVars, summaryVars, pipelineVars, otherVars>>

InitDedup ==
    /\ pc = "input"
    /\ OtherIdle
    /\ transcript = <<>>
    /\ kind \in {"actions", "decisions"}
    /\ \E texts \in SeqsUpTo(Texts, MaxCandidates) :
       \E conf \in [Texts -> ConfidenceLevels(kind)] :
          candidates = [i \in DOMAIN texts |->
                          [text |-> texts[i], confidence |-> conf[texts[i]]]]
    /\ similar \in {sim \in [Texts -> SUBSET Texts] : \A t \in Texts : t \in sim[t]}
    /\ unique = <<>>
    /\ TicketIdle
    /\ ConfIdle
    /\ SummaryIdle
    /\ PipelineIdle

DedupActions ==
    /\ pc = "input"
    /\ kind = "actions"
    /\ pc' = "unique"
    /\ unique' \in removeDuplicateActions(candidates, similar)
    /\ UNCHANGED <<transcript, kind, candidates, similar, notDedupVars>>

DedupDecisions ==
    /\ pc = "input"
    /\ kind = "decisions"
    /\ pc' = "unique"
    /\ unique' \in removeDuplicateDecisions(candidates, similar)
    /\ UNCHANGED <<transcript, kind, candidates, similar, notDedupVars>>

NextDedup == DedupActions \/ DedupDecisions

SpecDedup == InitDedup /\ [][NextDedup]_vars

\* the search reports each of two texts for the other
SimilarToEachOther(t, u) == u \in similar[t] /\ t \in similar[u]

\* C3: the result of removeDuplicateActions / removeDuplicateDecisions holds
\* no two entries that the similarity search reports as similar to each other
\* (in particular no entry twice), and an entry that is kept has the highest
\* confidence of the candidates similar to it.
C3_NoSimilarSurvivors ==
    pc = "unique" =>
        /\ \A i, j \in DOMAIN unique :
              i # j => ~ SimilarToEachOther(unique[i].text, unique[j].text)
        /\ \A i \in DOMAIN unique : \A c \in Range(candidates) :
              SimilarToEachOther(unique[i].text, c.text) =>
                  c.confidence <= unique[i].confidence

---------------------------------------------------------------------------
(* Summaries                                                                *)

TooShortSummary ==
    <<"M","e","e","t","i","n","g"," ","t","r","a","n","s","c","r","i","p",
      "t"," ","t","o","o"," ","s","h","o","r","t"," ","t","o"," ","s","u",
      "m","m","a","r","i","z","e",".">>
NoMeaningfulSummary ==
    <<"U","n","a","b","l","e"," ","t","o"," ","g","e","n","e","r","a","t",
      "e"," ","m","e","a","n","i","n","g","f","u","l"," ","s","u","m","m",
      "a","r","y",".">>
SummaryKeywords ==
    {<<"d","e","c","i","d","e","d">>, <<"a","g","r","e","e","d">>,
     <<"w","i","l","l">>, <<"s","h","o","u","l","d">>, <<"m","u","s","t">>,
     <<"i","m","p","o","r","t","a","n","t">>, <<"a","c","t","i","o","n">>,
     <<"n","e","x","t">>, <<"f","o","l","l","o","w">>,
     <<"i","s","s","u","e">>, <<"p","r","o","b","l","e","m">>,
     <<"s","o","l","u","t","i","o","n">>}

MinTranscriptLength == 50
MinSentenceLength == 10
VerbatimSentences == 3
ShortSentence == 20
LongSentence == 200
MaxTopSentences == 5

\* the indices 1 .. Len(scores) by score, highest first; equal scores keep
\* their order (Array.prototype.sort is stable)
ByScoreDesc(scores) ==
    LET before(i) == {j \in DOMAIN scores :
                        \/ scores[j] > scores[i]
                        \/ scores[j] = scores[i] /\ j < i}
    IN  [n \in DOMAIN scores |->
            CHOOSE i \in DOMAIN scores : Cardinality(before(i)) = n - 1]

\* transcript.split(/[.!?]+/).filter(s => s.trim().length > 10)
QualifyingSentences(text) ==
    SelectSeq(SplitRuns(text, Terminators),
              LAMBDA x : Len(Trim(x)) > MinSentenceLength)

\* the score of the sentence with (0-based) index of n, in tenths.  The code
\* adds 0.3, 0.2, 0.1 and -0.1 in floating point; sums that are equal here can
\* differ there in the last bit, which can change which of two sentences is
\* selected, not how many nor in which order they are emitted.
BasicScore(sentence, index, n) ==
    (IF 10 * index < 3 * n THEN 3 ELSE 0)
    + (IF 10 * index > 7 * n THEN 2 ELSE 0)
    + Cardinality({k \in SummaryKeywords : Includes(ToLowerCase(sentence), k)})
    - (IF Len(sentence) < ShortSentence \/ Len(sentence) > LongSentence THEN 1 ELSE 0)

\* Math.min(5, Math.ceil(sentences.length * 0.3))
TopCount(n) == Min({MaxTopSentences, (3 * n + 9) \div 10})

\* topSentences: sort by score, slice, sort by index; the (1-based) indices
BasicTopSentences(sentences) ==
    LET n      == Len(sentences)
        scores == [i \in 1..n |-> BasicScore(sentences[i], i - 1, n)]
    IN  Sorted(Range(SubSeq(ByScoreDesc(scores), 1, TopCount(n))))

\* if (summary.length > maxLength) summary = summary.substring(0, maxLength - 3) + '...'
TruncateSummary(text, max) ==
    IF Len(text) > max THEN Substring(text, 0, max - 3) \o <<".", ".", ".">>
    ELSE text

\* generateBasicSummary: the indices of topSentences in the order they are
\* joined (none where no sentence is selected by score) and the summary
BasicSummary(text, max) ==
    IF Len(text) < MinTranscriptLength
    THEN [topSentences |-> <<>>, summary |-> TooShortSummary]
    ELSE LET sentences == QualifyingSentences(text)
         IN  IF Len(sentences) <= VerbatimSentences
             THEN [topSentences |-> <<>>,
                   summary |-> Trim(Join(sentences, <<".", " ">>)) \o <<".">>]
             ELSE LET top == BasicTopSentences(sentences)
                      joined == Join([k \in DOMAIN top |-> Trim(sentences[top[k]])],
                                     <<".", " ">>)
                      cut == TruncateSummary(joined, max)
                  IN  [topSentences |-> top,
                       summary |-> IF cut = <<>> THEN NoMeaningfulSummary ELSE cut]

generateBasicSummary(text, max) == BasicSummary(text, max).summary

\* nlp(transcript).sentences().data(): the library's sentence tokenizer, taken
\* to end a sentence after each run of terminators; text is the sentence with
\* its terminators, trimmed
NlpSentences(text) ==
    LET starts == {i \in 1..Len(text) :
                     text[i] \in Terminators /\ (i = 1 \/ text[i-1] \notin Terminators)}
        ends   == {i \in 1..Len(text) :
                     text[i] \in Terminators /\ (i = Len(text) \/ text[i+1] \notin Terminators)}
        n      == Cardinality(starts)
        from(k) == IF k = 1 THEN 1 ELSE Nth(ends, k - 1) + 1
        to(k)   == IF k = n + 1 THEN Len(text) ELSE Nth(ends, k)
    IN  SelectSeq([k \in 1..(n + 1) |-> Trim(SubSeq(text, from(k), to(k)))],
                  LAMBDA x : x # <<>>)

MinWords == 10
MaxWords == 30
SummarySentences == 3
FallbackSentences == 2

\* the score of one sentence but for the ticket pattern
SentenceScore(text, index, n) ==
    LET lower == ToLowerCase(text)
        wordCount == Len(SplitChar(text, " "))
    IN  (IF 10 * index < 3 * n THEN 2 ELSE 0)
        + (IF 10 * index > 7 * n THEN 1 ELSE 0)
        + (IF \E word \in ActionWords : Includes(lower, word) THEN 3 ELSE 0)
        + (IF \E word \in DecisionWords : Includes(lower, word) THEN 3 ELSE 0)
        + (IF wordCount >= MinWords /\ wordCount <= MaxWords THEN 1 ELSE 0)

RECURSIVE ScoreSentences(_, _, _, _)
\* sentences.map(...): the scores of the sentences from i on and the lastIndex
\* the ticket pattern is left with; this.ticketPattern.test starts at lastIndex
\* and moves it behind the match, or to 0 when there is no match
ScoreSentences(sentences, i, last, scores) ==
    IF i > Len(sentences) THEN [scores |-> scores, lastIndex |-> last]
    ELSE LET found == TicketPatternExec(sentences[i], last)
             next  == IF found = {} THEN 0 ELSE (CHOOSE m \in found : TRUE).end
             score == SentenceScore(sentences[i], i - 1, Len(sentences))
                      + (IF found = {} THEN 0 ELSE 2)
         IN  ScoreSentences(sentences, i + 1, next, Append(scores, score))

\* generateSummary: the (1-based) indices of topSentences in the order they are
\* joined, the summary, the scores of the sentences and the lastIndex left
\* behind
generateSummary(text, last) ==
    LET sentences == NlpSentences(text)
        scored    == ScoreSentences(sentences, 1, last, <<>>)
        top       == SubSeq(ByScoreDesc(scored.scores), 1,
                            Min({SummarySentences, Len(sentences)}))
    IN  [topSentences |-> top,
         summary |-> Join([k \in DOMAIN top |-> sentences[top[k]]], <<" ">>),
         scores |-> scored.scores,
         lastIndex |-> scored.lastIndex]

\* the catch branch: transcript.split(/[.!?]+/).slice(0, 2).join('. ')
generateSummaryFallback(text) ==
    LET sentences == SplitRuns(text, Terminators)
    IN  Join(SubSeq(sentences, 1, Min({FallbackSentences, Len(sentences)})),
             <<".", " ">>)

---------------------------------------------------------------------------
(* The summary generators applied to bounded transcripts                   *)

MaxSentences == 4
LongPieceLength == 210
\* a sentence over 200 characters
LongSentencePiece == [i \in 1..LongPieceLength |-> "b"] \o <<".", " ">>
SummaryPieces ==
    {<<"a","a","a","a","a","a","a","a","a","a","a","a","."," ">>,
     <<"m","u","s","t"," ","f","i","x"," ","i","s","s","u","e","."," ">>,
     <<"o","k","."," ">>,
     <<"A","B","-","1"," ","d","e","c","i","d","e","d","."," ">>,
     LongSentencePiece}
SummaryInputs == {Concat(ps) : ps \in SeqsUpTo(SummaryPieces, MaxSentences)}
\* summaryLength of the tiers basic and ai, and generateTicketSpecificSummary's 300
SummaryLengths == {500, 1000, 300}

notSummaryVars ==
    <<ticketVars, confVars, dedupVars, pipelineVars, otherVars>>

InitSummary ==
    /\ pc = "input"
    /\ OtherIdle
    /\ transcript \in SummaryInputs
    /\ maxLength = 0
    /\ lastIndex = 0
    /\ topSentences = <<>>
    /\ summary = <<>>
    /\ TicketIdle
    /\ ConfIdle
    /\ DedupIdle
    /\ PipelineIdle

MPGenerateBasicSummary ==
    /\ pc = "input"
    /\ pc' = "basicSummary"
    /\ \E max \in SummaryLengths :
          LET r == BasicSummary(transcript, max)
          IN  /\ maxLength' = max
              /\ topSentences' = r.topSentences
              /\ summary' = r.summary
    /\ UNCHANGED <<transcript, lastIndex, notSummaryVars>>

TPGenerateSummary ==
    /\ pc = "input"
    /\ pc' = "summary"
    /\ LET r == generateSummary(transcript, lastIndex)
       IN  /\ topSentences' = r.topSentences
           /\ summary' = r.summary
           /\ lastIndex' = r.lastIndex
    /\ UNCHANGED <<transcript, maxLength, notSummaryVars>>

\* the nlp library throws: the catch branch returns the first sentences
TPGenerateSummaryFallback ==
    /\ pc = "input"
    /\ pc' = "summaryFallback"
    /\ topSentences' = <<>>
    /\ summary' = generateSummaryFallback(transcript)
    /\ UNCHANGED <<transcript, maxLength, lastIndex, notSummaryVars>>

NextSummary ==
    MPGenerateBasicSummary \/ TPGenerateSummary \/ TPGenerateSummaryFallback

SpecSummary == InitSummary /\ [][NextSummary]_vars

\* C4: the string generateBasicSummary(transcript, maxLength) returns has
\* length at most maxLength, whatever the number of qualifying sentences.
C4_SummaryWithinMaxLength ==
    pc = "basicSummary" => Len(summary) <= maxLength

\* C8: in both summary generators the sentences selected by score are emitted
\* in the same relative order as they occur in the transcript.
C8_SummaryInTranscriptOrder ==
    pc \in {"basicSummary", "summary"} =>
        \A i, j \in DOMAIN topSentences :
            i < j => topSentences[i] < topSentences[j]

---------------------------------------------------------------------------
(* Claims about ticket extraction                                          *)

\* a ticket id in stored form: 2 to 10 upper-case letters, "-", digits
IsTicketId(id) ==
    \E k \in KeyMin..KeyMax :
        /\ Len(id) >= k + 2
        /\ \A n \in 1..k : id[n] \in UpperChars
        /\ id[k + 1] = "-"
        /\ \A n \in (k + 2)..Len(id) : id[n] \in DigitChars

\* the ticket ids, in any letter case, that stand as words of their own in s
WrittenIds(s) ==
    { Substring(s, i, i + k + 1 + d) :
        <<i, k, d>> \in { t \in (0..Len(s)) \X (KeyMin..KeyMax) \X (1..Len(s)) :
            /\ WordBoundary(s, t[1])
            /\ RunLen(s, t[1], LetterChars) = t[2]
            /\ t[1] + t[2] < Len(s)
            /\ CharAt(s, t[1] + t[2]) = "-"
            /\ RunLen(s, t[1] + t[2] + 1, DigitChars) = t[3]
            /\ WordBoundary(s, t[1] + t[2] + 1 + t[3]) } }

IdsOf(ms) == {ms[i].ticketId : i \in DOMAIN ms}

\* C1: extractTicketMentions never returns two entries whose ticketId values
\* are equal when compared case-insensitively.
C1_NoCaseInsensitiveDuplicates ==
    pc = "mentions" =>
        \A i, j \in DOMAIN mentions :
            i < j => ToUpperCase(mentions[i].ticketId) # ToUpperCase(mentions[j].ticketId)

\* C9: a ticket id written in lower or mixed case is detected, and every
\* reported ticketId is in upper-case PROJECT-NUMBER form.
C9_CaseInsensitiveDetection ==
    /\ pc = "mentions" =>
        /\ \A id \in IdsOf(mentions) : IsTicketId(id)
        /\ \A id \in WrittenIds(transcript) : ToUpperCase(id) \in IdsOf(mentions)
    /\ pc = "tpMentions" =>
        /\ \A id \in IdsOf(tpMentions) : IsTicketId(id)
        /\ \A id \in WrittenIds(transcript) : ToUpperCase(id) \in IdsOf(tpMentions)

\* C10: the entries of extractTicketMentions are in order of first occurrence:
\* positions strictly increase along the result, and each position is the
\* offset of the first occurrence of the entry's ticket id in the transcript.
C10_FirstOccurrenceOrder ==
    pc = "mentions" =>
        /\ \A i, j \in DOMAIN mentions :
              i < j => mentions[i].position < mentions[j].position
        /\ \A i \in DOMAIN mentions :
              Includes(transcript, mentions[i].ticketId) =>
                  /\ OccursAt(transcript, mentions[i].ticketId, mentions[i].position)
                  /\ \A q \in 0..(mentions[i].position - 1) :
                        ~ OccursAt(transcript, mentions[i].ticketId, q)

---------------------------------------------------------------------------
(* MeetingProcessor: action items, decisions, participants                 *)

\* The pattern /(?:^|\.|;)\s*([^.;]*(?:word|...).*?)(?:\.|;|$)/gi run by exec
\* in a loop from offset start, on text without line terminators.  A match at
\* offset p takes the start of the text (p = 0) or the delimiter at p, the
\* white space behind it and the clause up to the next delimiter, which it
\* consumes, or up to the end of the text; there is one when the clause holds
\* one of the words.  The result holds match.index and match[1].
RECURSIVE ClauseMatches(_, _, _)
ClauseMatches(s, words, start) ==
    LET Delims == {".", ";"}
        Other  == Range(s) \ Delims
        clause(p, b0) ==
            LET b == b0 + RunLen(s, b0, SpaceChars)
                d == b + RunLen(s, b, Other)
            IN  [index |-> p, from |-> b, to |-> d,
                 end |-> IF d < Len(s) THEN d + 1 ELSE d]
        holds(c) == \E w \in words : \E q \in c.from..(c.to - Len(w)) :
                        OccursAtNoCase(s, w, q)
        at(p) ==
            LET first  == IF p = 0 THEN {clause(p, 0)} ELSE {}
                second == IF CharAt(s, p) \in Delims THEN {clause(p, p + 1)}
                          ELSE {}
            IN  IF \E c \in first : holds(c) THEN first
                ELSE {c \in second : holds(c)}
        ps == {p \in start..(Len(s) - 1) : at(p) # {}}
    IN  IF ps = {} THEN <<>>
        ELSE LET c == CHOOSE x \in at(Min(ps)) : TRUE
             IN  <<[index |-> c.index, text |-> Substring(s, c.from, c.to)]>>
                 \o ClauseMatches(s, words, c.end)

ActionPatterns ==
    <<
    {<<"w","i","l","l">>, <<"s","h","o","u","l","d">>, <<"m","u","s","t">>,
     <<"n","e","e","d"," ","t","o">>, <<"h","a","v","e"," ","t","o">>,
     <<"g","o","i","n","g"," ","t","o">>, <<"a","c","t","i","o","n">>,
     <<"t","o","d","o">>, <<"t","a","s","k">>},
    {<<"f","o","l","l","o","w"," ","u","p">>,
     <<"f","o","l","l","o","w","-","u","p">>,
     <<"n","e","x","t"," ","s","t","e","p">>,
     <<"a","c","t","i","o","n"," ","i","t","e","m">>},
    {<<"a","s","s","i","g","n">>,
     <<"r","e","s","p","o","n","s","i","b","l","e">>,
     <<"o","w","n","e","r">>, <<"d","u","e">>}
    >>
DecisionPatterns ==
    <<
    {<<"d","e","c","i","d","e","d">>, <<"a","g","r","e","e","d">>,
     <<"c","o","n","c","l","u","d","e","d">>,
     <<"d","e","t","e","r","m","i","n","e","d">>,
     <<"r","e","s","o","l","v","e","d">>},
    {<<"d","e","c","i","s","i","o","n">>, <<"c","h","o","i","c","e">>,
     <<"o","p","t","i","o","n">>, <<"a","p","p","r","o","a","c","h">>,
     <<"s","o","l","u","t","i","o","n">>},
    {<<"w","e"," ","w","i","l","l">>,
     <<"t","e","a","m"," ","w","i","l","l">>,
     <<"g","o","i","n","g"," ","w","i","t","h">>,
     <<"c","h","o","s","e","n">>, <<"s","e","l","e","c","t","e","d">>}
    >>

\* null
Null == <<>>
ModalWords ==
    {<<"w","i","l","l">>, <<"s","h","o","u","l","d">>, <<"m","u","s","t">>,
     <<"n","e","e","d"," ","t","o">>, <<"n","e","e","d","s"," ","t","o">>}
OwnerWords ==
    {<<"a","s","s","i","g","n">>, <<"a","s","s","i","g","n","e","d"," ","t","o">>,
     <<"r","e","s","p","o","n","s","i","b","l","e">>, <<"o","w","n","e","r">>}
CopulaWords == {<<"i","s">>, <<"w","a","s">>}
DutyWords == {<<"r","e","s","p","o","n","s","i","b","l","e">>,
              <<"a","s","s","i","g","n","e","d">>}

\* extractResponsiblePerson: match[1] of the first of the three patterns that
\* matches, at its leftmost match, or null.  The patterns carry flag i, under
\* which [A-Z][a-z]+ is a run of two or more letters of either case
extractResponsiblePerson(actionText) ==
    LET s == actionText
        run(i) == RunLen(s, i, LetterChars)
        gap(i) == RunLen(s, i, SpaceChars)
        \* \s+ and then one of the words, from offset i: the offsets behind it
        then(i, words) ==
            {i + gap(i) + Len(w) : w \in {w \in words :
                gap(i) >= 1 /\ OccursAtNoCase(s, w, i + gap(i))}}
        \* \b([A-Z][a-z]+) at offset i
        named(i) == WordBoundary(s, i) /\ run(i) >= 2
        p1 == {i \in 0..(Len(s) - 1) :
                  named(i) /\ then(i + run(i), ModalWords) # {}}
        \* the offsets of the names behind assign|assigned to|responsible|owner
        p2(i) == {e + gap(e) : e \in {e \in {i + Len(w) : w \in {w \in OwnerWords :
                                               OccursAtNoCase(s, w, i)}} :
                                  gap(e) >= 1 /\ run(e + gap(e)) >= 2}}
        at2 == {i \in 0..(Len(s) - 1) : p2(i) # {}}
        p3 == {i \in 0..(Len(s) - 1) :
                  /\ named(i)
                  /\ \E e \in then(i + run(i), CopulaWords) : then(e, DutyWords) # {}}
        name(i) == Substring(s, i, i + run(i))
    IN  IF p1 # {} THEN name(Min(p1))
        ELSE IF at2 # {} THEN name(Min(p2(Min(at2))))
        ELSE IF p3 # {} THEN name(Min(p3))
        ELSE Null

\* the loops over the patterns of extractActionItems (k = "actions") or
\* extractKeyDecisions (k = "decisions"): the candidates pushed; text is the
\* field action / decision (context, which no later step reads, is left out)
ClauseCandidates(s, k) ==
    LET patterns == IF k = "actions" THEN ActionPatterns ELSE DecisionPatterns
        found == Concat([n \in DOMAIN patterns |-> ClauseMatches(s, patterns[n], 0)])
        items == [i \in DOMAIN found |->
                    LET t == Trim(found[i].text)
                    IN  IF k = "actions"
                        THEN [text |-> t,
                              responsible |-> extractResponsiblePerson(t),
                              confidence |-> calculateActionConfidence(t)]
                        ELSE [text |-> t,
                              confidence |-> calculateDecisionConfidence(t)]]
    IN  SelectSeq(items, LAMBDA x : Len(x.text) > 10 /\ Len(x.text) < 300)

\* fuse.search(text) over items: the texts it reports.  The library's scoring
\* is not modelled: it reports the entries with the same text (mode "exact")
\* or every entry (mode "all")
FuseSearch(items, mode) ==
    LET T == {items[i].text : i \in DOMAIN items}
    IN  [t \in T |-> IF mode = "all" THEN T ELSE {t}]

\* extractActionItems without .filter(action => action.confidence > 0.3)
extractActionItems_Unfiltered(s, lib) ==
    UNION {IF lib.fault = "actionItems" /\ Len(actions) > 1 THEN {<<>>}
           ELSE {SubSeq(u, 1, Min({10, Len(u)})) :
                   u \in removeDuplicateActions(actions, FuseSearch(actions, lib.fuse))} :
             actions \in {ClauseCandidates(s, "actions")}}

\* the lists extractActionItems can return; an exception of the library
\* (fault), which removeDuplicateActions uses for more than one candidate, is
\* caught
extractActionItems(s, lib) ==
    UNION {IF lib.fault = "actionItems" /\ Len(actions) > 1 THEN {<<>>}
           ELSE {LET kept == SelectSeq(u, LAMBDA a : a.confidence > 30)
                 IN  SubSeq(kept, 1, Min({10, Len(kept)})) :
                   u \in removeDuplicateActions(actions, FuseSearch(actions, lib.fuse))} :
             actions \in {ClauseCandidates(s, "actions")}}

extractKeyDecisions(s, lib) ==
    UNION {IF lib.fault = "keyDecisions" /\ Len(decisions) > 1 THEN {<<>>}
           ELSE {LET kept == SelectSeq(u, LAMBDA d : d.confidence > 40)
                 IN  SubSeq(kept, 1, Min({8, Len(kept)})) :
                   u \in removeDuplicateDecisions(decisions, FuseSearch(decisions, lib.fuse))} :
             decisions \in {ClauseCandidates(s, "decisions")}}

\* The patterns that find names, at offset p: the match [name, end], if any.
\*   MeetingProcessor.identifyParticipants
\*     1  /\b([A-Z][a-z]+)\s+(?:said|mentioned|asked|suggested|noted|stated)/gi
\*     2  /\b([A-Z][a-z]+):\s/g      3  /(?:thanks|thank you)\s+([A-Z][a-z]+)/gi
\*   TextProcessor.extractParticipants, name being the match after
\*   .replace(/[:\s]+(said|mentioned|asked).*$/i, '').trim()
\*     4  /^([A-Z][a-z]+):/gm        5, 6, 7  /([A-Z][a-z]+)\s+said/gi, ... mentioned, ... asked
NameAt(s, k, p) ==
    LET said   == {<<"s","a","i","d">>, <<"m","e","n","t","i","o","n","e","d">>,
     <<"a","s","k","e","d">>, <<"s","u","g","g","e","s","t","e","d">>,
     <<"n","o","t","e","d">>, <<"s","t","a","t","e","d">>}
        thanks == {<<"t","h","a","n","k","s">>, <<"t","h","a","n","k"," ","y","o","u">>}
        tpVerb == <<<<"s","a","i","d">>, <<"m","e","n","t","i","o","n","e","d">>, <<"a","s","k","e","d">>>>
        \* letters of either case, white space, one of the words
        spoke(words) ==
            LET L == RunLen(s, p, LetterChars)
                W == RunLen(s, p + L, SpaceChars)
            IN  {[name |-> Substring(s, p, p + L), end |-> p + L + W + Len(w)] :
                    w \in {w \in words : L >= 2 /\ W >= 1
                                          /\ OccursAtNoCase(s, w, p + L + W)}}
        \* an upper-case letter, lower-case letters, a colon
        speaker ==
            LET L == RunLen(s, p + 1, LowerChars)
            IN  IF /\ CharAt(s, p) \in UpperChars
                   /\ L >= 1
                   /\ p + 1 + L < Len(s)
                   /\ CharAt(s, p + 1 + L) = ":"
                THEN {[from |-> p, to |-> p + 1 + L]}
                ELSE {}
        \* one of the words of thanks, white space, letters of either case
        thanked ==
            LET from(w) == p + Len(w) + RunLen(s, p + Len(w), SpaceChars)
                to(w)   == from(w) + RunLen(s, from(w), LetterChars)
            IN  {[name |-> Substring(s, from(w), to(w)), end |-> to(w)] :
                    w \in {w \in thanks : /\ OccursAtNoCase(s, w, p)
                                          /\ from(w) > p + Len(w)
                                          /\ to(w) - from(w) >= 2}}
    IN  CASE k = 1 -> IF WordBoundary(s, p) THEN spoke(said) ELSE {}
          [] k = 2 -> {[name |-> Substring(s, m.from, m.to), end |-> m.to + 2] :
                         m \in {m \in speaker : /\ WordBoundary(s, p)
                                                /\ m.to + 1 < Len(s)
                                                /\ CharAt(s, m.to + 1) \in SpaceChars}}
          [] k = 3 -> thanked
          [] k = 4 -> {[name |-> Substring(s, m.from, m.to + 1), end |-> m.to + 1] :
                         m \in {m \in speaker : p = 0 \/ CharAt(s, p - 1) = "\n"}}
          [] OTHER -> spoke({tpVerb[k - 4]})

RECURSIVE NameMatches(_, _, _)
\* the names pattern k finds from offset start on, by exec in a loop or match
NameMatches(s, k, start) ==
    LET ps == {p \in start..(Len(s) - 1) : NameAt(s, k, p) # {}}
    IN  IF ps = {} THEN <<>>
        ELSE LET m == CHOOSE x \in NameAt(s, k, Min(ps)) : TRUE
             IN  <<m.name>> \o NameMatches(s, k, m.end)

identifyParticipants(s) ==
    LET names == Concat([k \in 1..3 |-> NameMatches(s, k, 0)])
        participants == Unique(SelectSeq(names, LAMBDA n : Len(n) > 2 /\ Len(n) < 20), {})
    IN  SubSeq(participants, 1, Min({10, Len(participants)}))

---------------------------------------------------------------------------
(* MeetingProcessor.processMeeting                                         *)

\* this.config: maxTranscriptLength is 50000 (basic) and 100000 (ai) in the
\* code; the lengths here are scaled to the transcripts below
BasicMaxTranscriptLength == 30
AiMaxTranscriptLength == 55
\* this.config[tier] || this.config.basic
Config(t) ==
    IF t = "ai"
    THEN [useAI |-> TRUE, maxTranscriptLength |-> AiMaxTranscriptLength,
          summaryLength |-> 1000]
    ELSE [useAI |-> FALSE, maxTranscriptLength |-> BasicMaxTranscriptLength,
          summaryLength |-> 500]

\* !transcript || typeof transcript !== 'string'
InvalidTranscript(type, s) == type # "string" \/ s = <<>>

\* transcript.replace(/\s+/g, ' ').trim()
NormalizeWhitespace(s) ==
    LET keep == Sorted({i \in 1..Len(s) :
                          s[i] \notin SpaceChars \/ i = 1 \/ s[i-1] \notin SpaceChars})
    IN  Trim([k \in DOMAIN keep |->
                IF s[keep[k]] \in SpaceChars THEN " " ELSE s[keep[k]]])

\* cleanTranscript without the marker
cleanTranscript_NoMarker(s, max) ==
    LET cleaned == NormalizeWhitespace(s)
    IN  IF Len(cleaned) > max THEN Substring(cleaned, 0, max) ELSE cleaned

\* cleanTranscript for a valid transcript
cleanTranscript(s, max) ==
    LET cleaned == NormalizeWhitespace(s)
    IN  IF Len(cleaned) > max
        THEN Substring(cleaned, 0, max) \o <<".", ".", ".">>
        ELSE cleaned

\* the objects processMeeting can return for a valid transcript (processedAt
\* left out); generateAISummary returns generateBasicSummary's summary
processMeeting(s, t, lib) ==
    UNION {{[transcript     |-> clean,
             ticketMentions |-> extractTicketMentions(clean),
             summary        |-> generateBasicSummary(clean, Config(t).summaryLength),
             actionItems    |-> a,
             keyDecisions   |-> d,
             participants   |-> identifyParticipants(clean),
             processingTier |-> t,
             wordCount      |-> Len(SplitChar(clean, " "))] :
               a \in extractActionItems(clean, lib),
               d \in extractKeyDecisions(clean, lib)} :
             clean \in {cleanTranscript(s, Config(t).maxTranscriptLength)}}

---------------------------------------------------------------------------
(* TextProcessor.analyzeTranscript                                         *)

\* the sentences of transcript.split(/[.!?]+/) that include one of the words
SentencesWith(s, words) ==
    SelectSeq(SplitRuns(s, Terminators),
              LAMBDA x : \E w \in words : Includes(ToLowerCase(x), w))

\* [...new Set(items)].filter(item => item.length > 10).slice(0, n)
DistinctItems(items, n) ==
    LET kept == SelectSeq(Unique(items, {}), LAMBDA x : Len(x) > 10)
    IN  SubSeq(kept, 1, Min({n, Len(kept)}))

\* extractActionItems: lib.verbs says whether nlp finds a verb in the sentences
TP_extractActionItems(s, lib) ==
    LET found == SentencesWith(s, ActionWords)
    IN  DistinctItems(IF lib.verbs THEN [i \in DOMAIN found |-> Trim(found[i])]
                      ELSE <<>>, 10)

TP_extractKeyDecisions(s) ==
    LET found == SentencesWith(s, DecisionWords)
    IN  DistinctItems([i \in DOMAIN found |-> Trim(found[i])], 5)

extractParticipants(s) ==
    LET names == Concat([k \in 1..4 |-> NameMatches(s, k + 3, 0)])
        participants == Unique(SelectSeq(names, LAMBDA n : Len(n) > 1 /\ Len(n) < 20), {})
    IN  SubSeq(participants, 1, Min({10, Len(participants)}))

\* extractTopics: lib.nouns says whether nlp reports the words of the
\* transcript as nouns, or none
extractTopics(s, lib) ==
    LET starts == Sorted({i \in 1..Len(s) :
                            s[i] \in LetterChars /\ (i = 1 \/ s[i-1] \notin LetterChars)})
        nouns  == IF lib.nouns
                  THEN [k \in DOMAIN starts |->
                          ToLowerCase(SubSeq(s, starts[k],
                             starts[k] + RunLen(s, starts[k] - 1, LetterChars) - 1))]
                  ELSE <<>>
        words  == SelectSeq(nouns, LAMBDA w : Len(w) > 3)
        keys   == Unique(words, {})
        order  == ByScoreDesc([i \in DOMAIN keys |->
                                 Cardinality({j \in DOMAIN words : words[j] = keys[i]})])
    IN  [i \in 1..Min({5, Len(keys)}) |-> keys[order[i]]]

\* analyzeTranscript throws what an extractor throws: extractTicketMentions
\* for a transcript without a method match, extractActionItems when nlp throws
analyzeTranscriptThrows(type, s, lib) ==
    \/ type # "string"
    \/ lib.fault = "actionItems" /\ SentencesWith(s, ActionWords) # <<>>

\* the analysis returned otherwise; generateSummary catches what nlp throws
analyzeTranscript(s, lib) ==
    [ticketMentions |-> TP_extractTicketMentions(s),
     summary        |-> IF lib.fault = "summary" THEN generateSummaryFallback(s)
                        ELSE generateSummary(s, 0).summary,
     actionItems    |-> TP_extractActionItems(s, lib),
     keyDecisions   |-> TP_extractKeyDecisions(s),
     participants   |-> extractParticipants(s),
     sentiment      |-> analyzeSentiment(s),
     topics         |-> IF lib.fault = "topics" THEN <<>> ELSE extractTopics(s, lib)]

---------------------------------------------------------------------------
(* The two analyses applied to bounded transcripts                         *)

MaxParts == 2
PipelinePieces ==
    {<<"m","u","s","t"," ","f","i","x"," ","A","B","-","1","2"," ","n","o","w","."," ">>,
     <<"W","e"," ","d","e","c","i","d","e","d"," ","o","n"," "," ","C","D","-","2",";"," ">>,
     <<"A","n","n",":"," ","t","h","a","n","k","s"," ","B","o","b",".","\n">>,
     <<"A","n","n"," ","s","a","i","d"," ","w","e"," ","s","h","o","u","l","d"," ","a","g","r","e","e"," ","o","n"," ","i","t","."," ">>,
     <<" ","\t">>}
PipelineInputs == {Concat(ps) : ps \in SeqsUpTo(PipelinePieces, MaxParts)}
\* the tiers of the schema (src/unnamed/part_000)
Tiers == {"basic", "ai", "enterprise"}
OtherTypes == {"undefined", "null", "number", "object"}

\* fuse.js during processMeeting: it works, with either search outcome, or
\* it throws in one of the two extractors that use it
FuseBehaviours ==
    {Dependable, [Dependable EXCEPT !.fuse = "all"],
     [Dependable EXCEPT !.fault = "actionItems"],
     [Dependable EXCEPT !.fault = "keyDecisions"]}
\* nlp-compromise during analyzeTranscript: it works, finding no verbs and
\* nouns or finding them, or it throws in one of the extractors that use it
NlpBehaviours ==
    {Dependable} \cup
    {[Dependable EXCEPT !.fault = f, !.verbs = TRUE, !.nouns = TRUE] :
        f \in {"none", "summary", "actionItems", "topics"}}

notPipelineVars ==
    <<ticketVars, confVars, dedupVars, maxLength, topSentences, summary, otherVars>>

InitPipeline ==
    /\ pc = "input"
    /\ OtherIdle
    /\ \/ argType = "string" /\ transcript \in PipelineInputs
       \/ argType \in OtherTypes /\ transcript = <<>>
    /\ tier = "basic"
    /\ library = Dependable
    /\ outcome = "none"
    /\ result = <<>>
    /\ contextTicket = <<>>
    /\ TicketIdle
    /\ ConfIdle
    /\ DedupIdle
    /\ SummaryIdle

MPProcessMeeting ==
    /\ pc = "input"
    /\ pc' = "processMeeting"
    /\ \E t \in Tiers, lib \in FuseBehaviours :
          /\ tier' = t
          /\ library' = lib
          /\ IF InvalidTranscript(argType, transcript)
             THEN outcome' = "thrown" /\ result' = <<>>
             ELSE /\ outcome' = "returned"
                  /\ result' \in processMeeting(transcript, t, lib)
    /\ UNCHANGED <<transcript, argType, contextTicket, lastIndex, notPipelineVars>>

TPAnalyzeTranscript ==
    /\ pc = "input"
    /\ pc' = "analyzeTranscript"
    /\ \E lib \in NlpBehaviours :
          /\ library' = lib
          /\ IF analyzeTranscriptThrows(argType, transcript, lib)
             THEN outcome' = "thrown" /\ result' = <<>>
             ELSE /\ outcome' = "returned"
                  /\ result' = analyzeTranscript(transcript, lib)
          \* generateSummary leaves the lastIndex of ticketPattern behind
          /\ lastIndex' = IF argType = "string" /\ lib.fault # "summary"
                          THEN generateSummary(transcript, 0).lastIndex
                          ELSE lastIndex
    /\ UNCHANGED <<transcript, argType, tier, contextTicket, notPipelineVars>>

NextPipeline == MPProcessMeeting \/ TPAnalyzeTranscript

SpecPipeline == InitPipeline /\ [][NextPipeline]_vars

---------------------------------------------------------------------------
(* Claims about the two analyses                                           *)

\* C5: processMeeting fails exactly when the transcript is missing, is not a
\* string, or is empty after trimming (white space only included).
C5_FailsExactlyOnInvalidTranscript ==
    pc = "processMeeting" =>
        (outcome = "thrown" <=> (argType # "string" \/ Trim(transcript) = <<>>))

\* C6: an exception raised inside one extractor never aborts the analysis:
\* processMeeting and analyzeTranscript of a transcript with text return a
\* result whatever the libraries the extractors call do.
C6_ExtractorFailureNeverAborts ==
    (/\ pc \in {"processMeeting", "analyzeTranscript"}
     /\ argType = "string"
     /\ Trim(transcript) # <<>>) => outcome = "returned"

\* C7: a normalized transcript longer than the tier's maxTranscriptLength
\* (that of basic for every tier but ai) is returned cut to that length plus
\* the marker '...', a shorter one unchanged, and the word count and every
\* extractor's field are those of the returned text.
C7_TruncatedTranscript ==
    (pc = "processMeeting" /\ outcome = "returned") =>
        \A max \in {IF tier = "ai" THEN AiMaxTranscriptLength
                    ELSE BasicMaxTranscriptLength},
           normalized \in {NormalizeWhitespace(transcript)},
           text \in {result.transcript} :
            /\ Len(normalized) > max =>
                  /\ Len(text) = max + 3
                  /\ SubSeq(text, 1, max) = SubSeq(normalized, 1, max)
                  /\ SubSeq(text, max + 1, max + 3) = <<".", ".", ".">>
            /\ Len(normalized) <= max => text = normalized
            /\ result.wordCount = Len(SplitChar(text, " "))
            /\ result.ticketMentions = extractTicketMentions(text)
            /\ result.summary =
                  generateBasicSummary(text, IF tier = "ai" THEN 1000 ELSE 500)
            /\ result.actionItems \in extractActionItems(text, library)
            /\ result.keyDecisions \in extractKeyDecisions(text, library)
            /\ result.participants = identifyParticipants(text)

\* C7: a transcript of an unknown tier is cut inside a ticket id, and the
\* mentions returned are those of the cut text, not of the whole transcript
C7_Witness ==
    /\ pc = "processMeeting"
    /\ outcome = "returned"
    /\ tier = "enterprise"
    /\ Len(NormalizeWhitespace(transcript)) > BasicMaxTranscriptLength
    /\ Len(result.transcript) = BasicMaxTranscriptLength + 3
    /\ \E i \in DOMAIN result.ticketMentions :
          /\ result.ticketMentions[i].ticketId = <<"A", "B", "-", "1">>
          /\ ~ Includes(transcript, <<"A", "B", "-", "1", " ">>)

---------------------------------------------------------------------------
(* TextProcessor.analyzeSentiment applied to bounded texts                 *)

MaxPhrases == 3
SentimentPieces ==
    {<<"g","o","o","d"," ">>, <<"b","a","d"," ">>,
     <<"i","s","s","u","e"," ","r","e","s","o","l","v","e","d","."," ">>,
     <<"G","R","E","A","T"," ","s","u","c","c","e","s","s","u","c","c","e","s","s"," ">>,
     <<"a"," ","b"," ","c"," ","d"," ","e"," ","f"," ","g"," ","h"," ","i"," ","j"," ","k"," ","l"," ">>}
SentimentInputs == {Concat(ps) : ps \in SeqsUpTo(SentimentPieces, MaxPhrases)}

InitSentiment ==
    /\ pc = "input"
    /\ OtherIdle
    /\ \/ argType = "string" /\ transcript \in SentimentInputs
       \/ argType \in OtherTypes /\ transcript = <<>>
    /\ tier = "basic"
    /\ library = Dependable
    /\ outcome = "none"
    /\ result = <<>>
    /\ contextTicket = <<>>
    /\ TicketIdle
    /\ ConfIdle
    /\ DedupIdle
    /\ SummaryIdle

\* analyzeSentiment(text): text.toLowerCase() throws for a text that is no
\* string, inside the try block
TPAnalyzeSentiment ==
    /\ pc = "input"
    /\ pc' = "sentiment"
    /\ outcome' = "returned"
    /\ result' = IF argType = "string" THEN analyzeSentiment(transcript)
                 ELSE SentimentOnError
    /\ UNCHANGED <<transcript, argType, tier, library, contextTicket, lastIndex, notPipelineVars>>

NextSentiment == TPAnalyzeSentiment

SpecSentiment == InitSentiment /\ [][NextSentiment]_vars

\* the number of matches of the words of a list in the lower-cased text
SentimentCount(text, words) == SumOver(ToLowerCase(text), words, {})

\* C11: analyzeSentiment returns a value in [-1, 1] for every input, never
\* throws, and returns 0 for the empty string; the value is (positive count
\* minus negative count) / max(wordCount * 0.1, 1), clamped to [-1, 1].
C11_SentimentInRange ==
    pc = "sentiment" =>
        /\ outcome = "returned"
        /\ result[2] > 0
        /\ 0 - result[2] <= result[1] /\ result[1] <= result[2]
        /\ (argType = "string" /\ transcript = <<>>) => result[1] = 0
        /\ argType = "string" =>
             \A score \in {SentimentCount(transcript, PositiveWords)
                           - SentimentCount(transcript, NegativeWords)},
                den \in {Max({Len(SplitChar(transcript, " ")), 10})} :
                  \* result = clamp(score / (den / 10))
                  /\ 10 * score >= den => result[1] = result[2]
                  /\ 10 * score <= 0 - den => result[1] = 0 - result[2]
                  /\ (10 * score < den /\ 10 * score > 0 - den)
                        => result[1] * den = 10 * score * result[2]

\* C11: the clamp has acted on a text whose score exceeds a tenth of its words
C11_Witness ==
    /\ pc = "sentiment"
    /\ argType = "string"
    /\ RawSentiment(transcript)[1] > RawSentiment(transcript)[2]
    /\ result = <<1, 1>>

---------------------------------------------------------------------------
(* MeetingProcessor.processForTicketContext                                *)

NotRelevantSummary ==
    <<"T","h","i","s"," ","m","e","e","t","i","n","g"," ","d","o","e","s"," ","n","o","t"," ","a","p","p","e","a","r"," ","t","o"," ","d","i","s","c","u","s","s"," ","t","h","e"," ","s","p","e","c","i","f","i","e","d"," ","t","i","c","k","e","t",".">>
DiscussionAbout == <<"D","i","s","c","u","s","s","i","o","n"," ","a","b","o","u","t"," ">>
TicketWord == <<"t","i","c","k","e","t">>
IssueWord == <<"i","s","s","u","e">>

\* generateTicketSpecificSummary: `Discussion about ${ticketId}: ${ticketSummary}`
generateTicketSpecificSummary(s, id, relevantMentions) ==
    LET contexts == Join([i \in DOMAIN relevantMentions |-> relevantMentions[i].context],
                         <<" ">>)
    IN  DiscussionAbout \o id \o <<":", " ">> \o generateBasicSummary(contexts, 300)

\* item.action.toLowerCase().includes(ticketId.toLowerCase()) || ... 'ticket'
\* || ... 'issue'
MentionsTicket(text, id) ==
    \/ Includes(ToLowerCase(text), ToLowerCase(id))
    \/ Includes(ToLowerCase(text), TicketWord)
    \/ Includes(ToLowerCase(text), IssueWord)

\* filterTicketSpecificActions without the filter
filterTicketSpecificActions_Unfiltered(actionItems, id) == actionItems

filterTicketSpecificActions(actionItems, id) ==
    SelectSeq(actionItems, LAMBDA item : MentionsTicket(item.text, id))

filterTicketSpecificDecisions(decisions, id) ==
    SelectSeq(decisions, LAMBDA decision : MentionsTicket(decision.text, id))

\* the objects processForTicketContext can return for a valid transcript: the
\* fields of processMeeting's result and ticketSpecific
processForTicketContext(s, id, t, lib) ==
    UNION {{[ticketSpecific |->
               IF relevantMentions = <<>>
               THEN [relevant |-> FALSE,
                     summary |-> NotRelevantSummary,
                     mentions |-> <<>>,
                     actionItems |-> <<>>,
                     keyDecisions |-> <<>>]
               ELSE [relevant |-> TRUE,
                     summary |-> generateTicketSpecificSummary(s, id, relevantMentions),
                     mentions |-> relevantMentions,
                     actionItems |->
                         filterTicketSpecificActions(generalProcessing.actionItems, id),
                     keyDecisions |->
                         filterTicketSpecificDecisions(generalProcessing.keyDecisions, id)]]
            @@ generalProcessing :
              relevantMentions \in
                 {SelectSeq(generalProcessing.ticketMentions,
                            LAMBDA mention : mention.ticketId = id)}} :
           generalProcessing \in processMeeting(s, t, lib)}

---------------------------------------------------------------------------
(* processForTicketContext applied to bounded transcripts                  *)

MaxContextParts == 2
ContextPieces ==
    {<<"t","i","c","k","e","t"," ","A","B","-","1","2"," ","i","s"," ","d","u","e",";"," ">>,
     <<"W","e"," ","d","e","c","i","d","e","d"," ","o","n"," ","C","D","-","2",";"," ">>,
     <<"B","o","b"," ","s","h","o","u","l","d"," ","r","e","v","i","e","w"," ","i","t","."," ">>,
     <<"i","s","s","u","e"," ","a","b","-","1"," ","a","g","r","e","e","d","."," ">>}
ContextInputs == {Concat(ps) : ps \in SeqsUpTo(ContextPieces, MaxContextParts)}
ContextTicketIds ==
    {<<"A","B","-","1","2">>, <<"a","b","-","1">>, <<"A","B","-","1">>}

InitTicketContext ==
    /\ pc = "input"
    /\ OtherIdle
    /\ \/ argType = "string" /\ transcript \in ContextInputs
       \/ argType \in OtherTypes /\ transcript = <<>>
    /\ tier = "basic"
    /\ library = Dependable
    /\ outcome = "none"
    /\ result = <<>>
    /\ contextTicket = <<>>
    /\ TicketIdle
    /\ ConfIdle
    /\ DedupIdle
    /\ SummaryIdle

\* processMeeting's exception is logged and thrown again
MPProcessForTicketContext ==
    /\ pc = "input"
    /\ pc' = "ticketContext"
    /\ \E id \in ContextTicketIds, t \in Tiers, lib \in FuseBehaviours :
          /\ contextTicket' = id
          /\ tier' = t
          /\ library' = lib
          /\ IF InvalidTranscript(argType, transcript)
             THEN outcome' = "thrown" /\ result' = <<>>
             ELSE /\ outcome' = "returned"
                  /\ result' \in processForTicketContext(transcript, id, t, lib)
    /\ UNCHANGED <<transcript, argType, lastIndex, notPipelineVars>>

NextTicketContext == MPProcessForTicketContext

SpecTicketContext == InitTicketContext /\ [][NextTicketContext]_vars

\* xs is ys with some entries left out
IsSubsequence(xs, ys) ==
    \E f \in [DOMAIN xs -> DOMAIN ys] :
        /\ \A i, j \in DOMAIN xs : i < j => f[i] < f[j]
        /\ \A i \in DOMAIN xs : xs[i] = ys[f[i]]

\* C12: ticketSpecific.relevant is true exactly when the general analysis
\* holds a mention of ticketId; when it is false, mentions, actionItems and
\* keyDecisions are empty and the summary is the fixed placeholder; when it is
\* true, mentions holds only entries with that ticketId, and actionItems and
\* keyDecisions are sub-sequences of the general lists whose entries contain
\* the ticket id, 'ticket' or 'issue'.
C12_TicketSpecificView ==
    (pc = "ticketContext" /\ outcome = "returned") =>
        \A ts \in {result.ticketSpecific} :
            /\ ts.relevant <=>
                  \E i \in DOMAIN result.ticketMentions :
                      result.ticketMentions[i].ticketId = contextTicket
            /\ ~ ts.relevant =>
                  /\ ts.mentions = <<>>
                  /\ ts.actionItems = <<>>
                  /\ ts.keyDecisions = <<>>
                  /\ ts.summary = NotRelevantSummary
            /\ ts.relevant =>
                  /\ ts.mentions # <<>>
                  /\ \A i \in DOMAIN ts.mentions : ts.mentions[i].ticketId = contextTicket
                  /\ IsSubsequence(ts.actionItems, result.actionItems)
                  /\ IsSubsequence(ts.keyDecisions, result.keyDecisions)
                  /\ \A i \in DOMAIN ts.actionItems :
                        MentionsTicket(ts.actionItems[i].text, contextTicket)
                  /\ \A i \in DOMAIN ts.keyDecisions :
                        MentionsTicket(ts.keyDecisions[i].text, contextTicket)

\* C12: the ticket is mentioned, and of two general action items the one
\* that names no ticket is left out of the ticket's view
C12_Witness ==
    /\ pc = "ticketContext"
    /\ outcome = "returned"
    /\ result.ticketSpecific.relevant
    /\ Len(result.actionItems) = 2
    /\ Len(result.ticketSpecific.actionItems) = 1

---------------------------------------------------------------------------
(* The uploadMeetingFile resolver (src/unnamed/part_003), MeetingService   *)
(* and JiraService.updateTicketWithMeetingContext                          *)
(*                                                                         *)
(* The database, the storage and the Jira API are the platform's: an       *)
(* insert, a storage.set or a request either succeeds or throws.           *)

\* file.type === 'text/plain' || file.name.endsWith('.txt')
IsTextFile(f) == f.type = "text/plain" \/ f.name \in {"notes.txt"}
\* file.type.startsWith('audio/'); a TypeError for a file without a type
IsAudioFile(f) == f.type \in {"audio/mpeg"}

\* processTextTranscript: what it returns or throws, and the tables it leaves.
\* fail says which insert the platform fails at: that of the meeting (0), of
\* the k-th ticket mention (k), or none (-1, or a k beyond the mentions)
processTextTranscript(s, id, lib, fail, tables) ==
    IF analyzeTranscriptThrows("string", s, lib) \/ fail = 0
    THEN [thrown |-> TRUE, meeting |-> NoMeeting, db |-> tables]
    ELSE CHOOSE r \in
            {LET meeting == [id |-> id,
                            transcript_text |-> s,
                            processed_data |-> analysis,
                            meeting_type |-> "uploaded",
                            processing_status |-> "completed"]
                 n       == Len(analysis.ticketMentions)
                 stored  == [tables EXCEPT !.meetings = @ \cup {id}]
                 upTo(j) == {<<id, analysis.ticketMentions[i].ticketId>> : i \in 1..j}
             IN  IF fail \in 1..n
                 THEN [thrown |-> TRUE, meeting |-> NoMeeting,
                       db |-> [stored EXCEPT !.ticket_mentions = @ \cup upTo(fail - 1)]]
                 ELSE [thrown |-> FALSE, meeting |-> meeting,
                       db |-> [stored EXCEPT !.ticket_mentions = @ \cup upTo(n)]] :
             analysis \in {analyzeTranscript(s, lib)}} : TRUE

\* processAudioFile: the platform can fail at the insert of the meeting, at
\* storage.set or at the insert into the processing queue
processAudioFile(id, fail, tables) ==
    LET meeting == [id |-> id,
                    transcript_text |-> <<>>,
                    processed_data |-> <<>>,
                    meeting_type |-> "audio",
                    processing_status |-> "pending"]
        stored  == [tables EXCEPT !.meetings = @ \cup {id}]
        filed   == [stored EXCEPT !.storage = @ \cup {id}]
    IN  CASE fail = "meeting" -> [thrown |-> TRUE, meeting |-> NoMeeting, db |-> tables]
          [] fail = "storage" -> [thrown |-> TRUE, meeting |-> NoMeeting, db |-> stored]
          [] fail = "queue"   -> [thrown |-> TRUE, meeting |-> NoMeeting, db |-> filed]
          [] OTHER -> [thrown |-> FALSE, meeting |-> meeting,
                       db |-> [filed EXCEPT !.processing_queue = @ \cup {id}]]

Failed(message) == [success |-> FALSE, error |-> message]

\* the resolver without the try / catch around the Jira update: the outer
\* catch answers
UploadResponse_NoInnerCatch(meeting, jiraError) ==
    IF jiraError THEN Failed("Jira update failed")
    ELSE [success |-> TRUE, meeting |-> meeting,
          message |-> "Meeting processed successfully"]

\* what the resolver returns once the file is processed: the catch around the
\* Jira update warns and goes on
UploadResponse(meeting, jiraError) ==
    [success |-> TRUE, meeting |-> meeting,
     message |-> "Meeting processed successfully"]

---------------------------------------------------------------------------
(* Uploads handled one after the other                                     *)

MaxUploads == 2
Files ==
    {NoFile,
     [present |-> TRUE, type |-> "text/plain", name |-> "notes.txt"],
     [present |-> TRUE, type |-> "application/octet-stream", name |-> "notes.txt"],
     [present |-> TRUE, type |-> "audio/mpeg", name |-> "call.mp3"],
     [present |-> TRUE, type |-> "application/pdf", name |-> "slides.pdf"],
     [present |-> TRUE, type |-> "undefined", name |-> "call.mp3"]}
\* the texts of the files
UploadTranscripts ==
    {<<>>,
     <<"m","u","s","t"," ","f","i","x"," ","A","B","-","1","2"," ","n","o","w","."," ">>,
     <<"A","B","-","1"," ","a","n","d"," ","C","D","-","2"," ","a","r","e"," ","d","o","n","e","."," ">>}
\* nlp-compromise during the analysis: it works, or throws in extractActionItems
UploadNlpBehaviours == {lib \in NlpBehaviours : lib.fault \in {"none", "actionItems"}}

notUploadVars ==
    <<ticketVars, confVars, dedupVars, summaryVars, pipelineVars, laterVars>>

InitUpload ==
    /\ pc = "input"
    /\ transcript = <<>>
    /\ calls = 0
    /\ file = NoFile
    /\ mcpEnabled \in BOOLEAN
    /\ db = EmptyDb
    /\ processedMeeting = NoMeeting
    /\ jira = JiraUntouched
    /\ response = NoResponse
    /\ LaterIdle
    /\ TicketIdle
    /\ ConfIdle
    /\ DedupIdle
    /\ SummaryIdle
    /\ PipelineIdle

\* the resolver up to the choice of the processing
ReceiveUpload ==
    /\ pc = "input"
    /\ calls < MaxUploads
    /\ calls' = calls + 1
    /\ \E f \in Files :
          /\ file' = f
          /\ IF ~ f.present
             THEN /\ pc' = "responded"
                  /\ response' = Failed("No file provided")
                  /\ transcript' = <<>>
             ELSE IF IsTextFile(f)
             THEN /\ pc' = "text"
                  /\ transcript' \in UploadTranscripts
                  /\ UNCHANGED response
             ELSE IF f.type = "undefined"
             THEN /\ pc' = "responded"
                  /\ response' = Failed("TypeError")
                  /\ transcript' = <<>>
             ELSE IF IsAudioFile(f)
             THEN /\ pc' = "audio"
                  /\ transcript' = <<>>
                  /\ UNCHANGED response
             ELSE /\ pc' = "responded"
                  /\ response' = Failed("Unsupported file type. Please upload .txt or audio files.")
                  /\ transcript' = <<>>
    /\ UNCHANGED <<mcpEnabled, db, processedMeeting, jira, notUploadVars>>

\* what processTextTranscript / processAudioFile left: go on to the Jira
\* update, or answer from the outer catch
Processed(r) ==
    /\ db' = r.db
    /\ IF r.thrown
       THEN /\ pc' = "responded"
            /\ response' = Failed("processing failed")
            /\ UNCHANGED processedMeeting
       ELSE /\ pc' = "update"
            /\ processedMeeting' = r.meeting
            /\ UNCHANGED response

ProcessTextTranscript ==
    /\ pc = "text"
    /\ \E lib \in UploadNlpBehaviours, fail \in -1..2 :
          \E r \in {processTextTranscript(transcript, calls, lib, fail, db)} :
             Processed(r)
    /\ UNCHANGED <<transcript, calls, file, mcpEnabled, jira, notUploadVars>>

ProcessAudioFile ==
    /\ pc = "audio"
    /\ \E fail \in {"none", "meeting", "storage", "queue"} :
          \E r \in {processAudioFile(calls, fail, db)} : Processed(r)
    /\ UNCHANGED <<transcript, calls, file, mcpEnabled, jira, notUploadVars>>

\* updateViaMCP throws in every case
UpdateViaMCP ==
    /\ pc = "update"
    /\ mcpEnabled
    /\ jira.mcp = "none"
    /\ jira' = [jira EXCEPT !.mcp = "failed"]
    /\ UNCHANGED <<pc, transcript, calls, file, mcpEnabled, db, processedMeeting,
                   response, notUploadVars>>

\* updateViaRestAPI: the comment is posted, the API answers with an error
\* status, or the request (or formatMeetingComment) throws
UpdateViaRestAPI ==
    /\ pc = "update"
    /\ mcpEnabled => jira.mcp = "failed"
    /\ pc' = "return"
    /\ \E r \in {"posted", "rejected", "threw"} :
          jira' = [jira EXCEPT !.rest = r]
    /\ UNCHANGED <<transcript, calls, file, mcpEnabled, db, processedMeeting,
                   response, notUploadVars>>

\* the end of the resolver
Respond ==
    /\ pc = "return"
    /\ pc' = "responded"
    /\ response' = UploadResponse(processedMeeting, jira.rest # "posted")
    /\ UNCHANGED <<transcript, calls, file, mcpEnabled, db, processedMeeting,
                   jira, notUploadVars>>

\* the next request finds the tables as the last one left them
NextRequest ==
    /\ pc = "responded"
    /\ calls < MaxUploads
    /\ pc' = "input"
    /\ transcript' = <<>>
    /\ file' = NoFile
    /\ processedMeeting' = NoMeeting
    /\ jira' = JiraUntouched
    /\ response' = NoResponse
    /\ UNCHANGED <<calls, mcpEnabled, db, notUploadVars>>

NextUpload ==
    \/ ReceiveUpload
    \/ ProcessTextTranscript
    \/ ProcessAudioFile
    \/ UpdateViaMCP
    \/ UpdateViaRestAPI
    \/ Respond
    \/ NextRequest

SpecUpload == InitUpload /\ [][NextUpload]_vars

\* C13: a failure of the Jira update (on the MCP path, the REST fallback, or
\* both) never turns a successfully processed upload into a failure: the
\* resolver returns success: true with the processed meeting, and the
\* meeting stays stored.
C13_JiraFailureKeepsUpload ==
    (pc = "responded" /\ processedMeeting # NoMeeting) =>
        /\ response.success
        /\ response.meeting = processedMeeting
        /\ processedMeeting.id \in db.meetings

\* C13: both the MCP path and the REST fallback have failed for a processed
\* text upload, and the resolver has answered
C13_Witness ==
    /\ pc = "responded"
    /\ processedMeeting # NoMeeting
    /\ processedMeeting.meeting_type = "uploaded"
    /\ jira.mcp = "failed"
    /\ jira.rest \in {"rejected", "threw"}
    /\ response.success

---------------------------------------------------------------------------
(* One TextProcessor used for several calls                                *)

MaxCalls == 3
MaxCallSentences == 2
CallPieces ==
    {<<"A","B","-","1"," ","o","k","."," ">>,
     <<"w","e"," ","d","e","c","i","d","e","d","."," ">>,
     <<"s","e","e"," ","C","D","-","2","2","."," ">>,
     <<"a","l","l"," ","d","o","n","e","."," ">>}
CallInputs == {Concat(ps) : ps \in SeqsUpTo(CallPieces, MaxCallSentences)}

notCallVars ==
    <<ticketVars, confVars, dedupVars, maxLength, pipelineVars, uploadVars, laterVars>>

\* new TextProcessor()
InitCalls ==
    /\ pc = "input"
    /\ transcript = <<>>
    /\ calls = 0
    /\ UploadIdle
    /\ LaterIdle
    /\ TicketIdle
    /\ ConfIdle
    /\ DedupIdle
    /\ SummaryIdle
    /\ PipelineIdle

\* generateSummary(t) on the instance as the calls before left it
CallGenerateSummary ==
    /\ calls < MaxCalls
    /\ calls' = calls + 1
    /\ pc' = "summary"
    /\ \E t \in CallInputs :
          /\ transcript' = t
          /\ \E r \in {generateSummary(t, lastIndex)} :
                /\ topSentences' = r.topSentences
                /\ summary' = r.summary
                /\ lastIndex' = r.lastIndex
    /\ UNCHANGED notCallVars

\* extractTicketMentions(t): String.prototype.match sets the lastIndex of a
\* global pattern to 0
CallExtractTicketMentions ==
    /\ calls < MaxCalls
    /\ calls' = calls + 1
    /\ pc' = "tpMentions"
    /\ \E t \in CallInputs : transcript' = t
    /\ lastIndex' = 0
    /\ topSentences' = <<>>
    /\ summary' = <<>>
    /\ UNCHANGED notCallVars

NextCalls == CallGenerateSummary \/ CallExtractTicketMentions

SpecCalls == InitCalls /\ [][NextCalls]_vars

\* the score of each sentence as a new TextProcessor computes it but for the
\* ticket pattern, and whether the sentence holds a ticket id
ScoreWithoutBonus(text, i) ==
    SentenceScore(NlpSentences(text)[i], i - 1, Len(NlpSentences(text)))
HoldsTicketId(sentence) == TicketPatternExec(sentence, 0) # {}

\* C14: a TextProcessor keeps no state between calls or between sentences:
\* generateSummary(t) returns the summary a new instance returns for t,
\* whatever calls were made before, and a sentence is given the ticket-id
\* bonus exactly when it holds a ticket id.
C14_NoStateBetweenCalls ==
    [][CallGenerateSummary =>
          \A r \in {generateSummary(transcript', lastIndex)} :
             /\ r.summary = generateSummary(transcript', 0).summary
             /\ \A i \in DOMAIN r.scores :
                   (r.scores[i] = ScoreWithoutBonus(transcript', i) + 2)
                      <=> HoldsTicketId(NlpSentences(transcript')[i])]_vars

---------------------------------------------------------------------------
(* sanitizeInput (src/unnamed/part_004, src/src/index.js)                  *)

\* input.replace(/c/g, entity) for a one-character pattern
ReplaceAll(s, c, entity) ==
    Concat([i \in 1..Len(s) |-> IF s[i] = c THEN entity ELSE <<s[i]>>])

\* the replacements of the validation utilities, in the order of the calls
SanitizeReplacements ==
    <<<<"<", <<"&","l","t",";">>>>, <<">", <<"&","g","t",";">>>>, <<"\"", <<"&","q","u","o","t",";">>>>, <<"'", <<"&","#","x","2","7",";">>>>, <<"/", <<"&","#","x","2","F",";">>>>>>

RECURSIVE ReplaceEach(_, _)
ReplaceEach(s, replacements) ==
    IF replacements = <<>> THEN s
    ELSE ReplaceEach(ReplaceAll(s, Head(replacements)[1], Head(replacements)[2]),
                     Tail(replacements))

\* sanitizeInput of the validation utilities, for a string
sanitizeInput(input) == ReplaceEach(input, SanitizeReplacements)

\* sanitizeInput of src/index.js, for a string: the first four replacements
sanitizeInput_index(input) == ReplaceEach(input, SubSeq(SanitizeReplacements, 1, 4))

---------------------------------------------------------------------------
(* sanitizeInput applied to bounded inputs                                 *)

MaxInputLength == 3
InputChars == {"&", "<", ">", "\"", "'", "/", "a", " "}
SanitizeInputs == SeqsUpTo(InputChars, MaxInputLength)

InitSanitize ==
    /\ pc = "input"
    /\ OtherIdle
    /\ \/ argType = "string" /\ transcript \in SanitizeInputs
       \/ argType \in OtherTypes /\ transcript = <<>>
    /\ tier = "basic"
    /\ library = Dependable
    /\ outcome = "none"
    /\ result = <<>>
    /\ contextTicket = <<>>
    /\ TicketIdle
    /\ ConfIdle
    /\ DedupIdle
    /\ SummaryIdle

\* if (typeof input !== 'string') return input
SanitizeInput ==
    /\ pc = "input"
    /\ pc' = "sanitized"
    /\ outcome' = "returned"
    /\ result' = IF argType = "string" THEN sanitizeInput(transcript) ELSE transcript
    /\ UNCHANGED <<transcript, argType, tier, library, contextTicket, lastIndex,
                   notPipelineVars>>

SanitizeInputIndex ==
    /\ pc = "input"
    /\ pc' = "sanitizedIndex"
    /\ outcome' = "returned"
    /\ result' = IF argType = "string" THEN sanitizeInput_index(transcript)
                 ELSE transcript
    /\ UNCHANGED <<transcript, argType, tier, library, contextTicket, lastIndex,
                   notPipelineVars>>

NextSanitize == SanitizeInput \/ SanitizeInputIndex

SpecSanitize == InitSanitize /\ [][NextSanitize]_vars

\* the HTML entity of a character, the character itself where it has none
HtmlEntity(c) ==
    CASE c = "&" -> <<"&","a","m","p",";">>
      [] c = "<" -> <<"&","l","t",";">>
      [] c = ">" -> <<"&","g","t",";">>
      [] c = "\"" -> <<"&","q","u","o","t",";">>
      [] c = "'" -> <<"&","#","x","2","7",";">>
      [] c = "/" -> <<"&","#","x","2","F",";">>
      [] OTHER -> <<c>>

\* C15: sanitizeInput replaces every occurrence of &, <, >, ", ' and / by its
\* HTML entity (&amp; &lt; &gt; &quot; &#x27; &#x2F;), so that
\* 'Hello & "World"' becomes 'Hello &amp; &quot;World&quot;'; an input that
\* is no string is returned unchanged.
C15_SanitizeEscapesHtml ==
    pc \in {"sanitized", "sanitizedIndex"} =>
        /\ outcome = "returned"
        /\ argType # "string" => result = transcript
        /\ argType = "string" =>
              result = Concat([i \in 1..Len(transcript) |-> HtmlEntity(transcript[i])])

---------------------------------------------------------------------------
(* The participant extractors applied to bounded transcripts               *)

MaxSpeakerParts == 3
SpeakerPieces ==
    {<<"A","l"," ","s","a","i","d"," ","o","k","."," ">>,
     <<"t","h","e","y"," ","a","s","k","e","d"," ","B","o","b","."," ">>,
     <<"A","n","n",":"," ","y","e","s",".","\n">>,
     <<"t","h","a","n","k","s"," ","B","o","b","."," ">>,
     <<"B","o","b"," ","n","o","t","e","d"," ","i","t","."," ">>}
SpeakerInputs == {Concat(ps) : ps \in SeqsUpTo(SpeakerPieces, MaxSpeakerParts)}

InitParticipants ==
    /\ pc = "input"
    /\ OtherIdle
    /\ transcript \in SpeakerInputs
    /\ PipelineIdle
    /\ TicketIdle
    /\ ConfIdle
    /\ DedupIdle
    /\ SummaryIdle

MPIdentifyParticipants ==
    /\ pc = "input"
    /\ pc' = "participants"
    /\ outcome' = "returned"
    /\ result' = identifyParticipants(transcript)
    /\ UNCHANGED <<transcript, argType, tier, library, contextTicket, lastIndex,
                   notPipelineVars>>

TPExtractParticipants ==
    /\ pc = "input"
    /\ pc' = "tpParticipants"
    /\ outcome' = "returned"
    /\ result' = extractParticipants(transcript)
    /\ UNCHANGED <<transcript, argType, tier, library, contextTicket, lastIndex,
                   notPipelineVars>>

NextParticipants == MPIdentifyParticipants \/ TPExtractParticipants

SpecParticipants == InitParticipants /\ [][NextParticipants]_vars

SpeakerVerbs ==
    {<<"s","a","i","d">>, <<"m","e","n","t","i","o","n","e","d">>, <<"a","s","k","e","d">>, <<"s","u","g","g","e","s","t","e","d">>, <<"n","o","t","e","d">>, <<"s","t","a","t","e","d">>}
ThanksWords == {<<"t","h","a","n","k","s">>, <<"t","h","a","n","k"," ","y","o","u">>}

\* the words of s in a speaker position: a run of letters followed by a
\* colon, followed by white space and a verb of speech, or preceded by words
\* of thanks and white space
SpeakerTokens(s) ==
    {Substring(s, p, p + RunLen(s, p, LetterChars)) :
        p \in {p \in 0..(Len(s) - 1) :
                 /\ CharAt(s, p) \in LetterChars
                 /\ p = 0 \/ CharAt(s, p - 1) \notin LetterChars
                 /\ \E e \in {p + RunLen(s, p, LetterChars)} :
                       \/ e < Len(s) /\ CharAt(s, e) = ":"
                       \/ \E w \in SpeakerVerbs :
                             /\ RunLen(s, e, SpaceChars) >= 1
                             /\ OccursAtNoCase(s, w, e + RunLen(s, e, SpaceChars))
                       \/ \E w \in ThanksWords : \E q \in 0..(p - 1) :
                             /\ OccursAtNoCase(s, w, q)
                             /\ q + Len(w) < p
                             /\ RunLen(s, q + Len(w), SpaceChars) = p - q - Len(w)}}

\* an upper-case letter followed by lower-case letters, of length in [2, 20)
IsParticipantName(n) ==
    /\ Len(n) >= 2 /\ Len(n) < 20
    /\ n[1] \in UpperChars
    /\ \A i \in 2..Len(n) : n[i] \in LowerChars

\* C16: a token in a speaker position ("Name:", "Name said / mentioned /
\* asked / suggested / noted / stated", "thanks Name") is returned if and
\* only if it is an upper-case letter followed by lower-case letters, of
\* length in [2, 20); the result holds at most 10 names, each once.
C16_ParticipantsAreNames ==
    pc \in {"participants", "tpParticipants"} =>
        /\ \A i \in DOMAIN result :
              result[i] \in SpeakerTokens(transcript) /\ IsParticipantName(result[i])
        /\ \A n \in SpeakerTokens(transcript) :
              IsParticipantName(n) => n \in Range(result)
        /\ Len(result) <= 10
        /\ \A i, j \in DOMAIN result : i # j => result[i] # result[j]

---------------------------------------------------------------------------
(* extractActionItems and extractKeyDecisions applied to bounded           *)
(* transcripts                                                             *)

MaxBlocks == 3
BlockKinds == {"tasks", "decisions", "plans"}
BlockDigits == <<"1","2","3","4","5","6","7","8","9">>
\* two clauses of a transcript, numbered so that no two clauses are alike
Clauses(k, n) ==
    LET d == BlockDigits[n]
    IN  CASE k = "tasks" ->
        <<"A","l"," ","m","u","s","t"," ","f","i","x"," ","i","t","e","m">> \o <<d>> \o <<" ","b","y"," ","n","o","o","n",";"," ">>
        \o <<"B","o"," ","i","s"," ","o","w","n","e","r"," ","o","f"," ","p","a","r","t">> \o <<d>> \o <<";"," ">>
          [] k = "decisions" ->
        <<"w","e"," ","a","g","r","e","e","d"," ","o","n"," ","f","i","n","a","l"," ","p","l","a","n">> \o <<d>> \o <<";"," ">>
        \o <<"p","l","a","n">> \o <<d>> \o <<" ","w","a","s"," ","c","h","o","s","e","n"," ","n","o","w",";"," ">>
          [] OTHER ->
        <<"w","e"," ","a","r","e"," ","g","o","i","n","g"," ","t","o"," ","s","e","e"," ">> \o <<d>> \o <<";"," ">>
        \o <<"o","p","t","i","o","n">> \o <<d>> \o <<" ","i","s"," ","d","u","e"," ","b","y"," ","t","h","e"," ","o","w","n","e","r",";"," ">>
Block(k, n) == Clauses(k, 2 * n - 1) \o Clauses(k, 2 * n)
ExtractInputs ==
    {Concat([n \in DOMAIN ks |-> Block(ks[n], n)]) : ks \in SeqsUpTo(BlockKinds, MaxBlocks)}

notExtractVars ==
    <<ticketVars, confVars, summaryVars, similar, unique, argType, tier,
      contextTicket, otherVars>>

InitExtract ==
    /\ pc = "input"
    /\ OtherIdle
    /\ transcript \in ExtractInputs
    /\ PipelineIdle
    /\ TicketIdle
    /\ ConfIdle
    /\ DedupIdle
    /\ SummaryIdle

\* candidates is the array actions, as handed to removeDuplicateActions
MPExtractActionItems ==
    /\ pc = "input"
    /\ pc' = "actionItems"
    /\ kind' = "actions"
    /\ candidates' = ClauseCandidates(transcript, "actions")
    /\ outcome' = "returned"
    /\ \E lib \in FuseBehaviours :
          /\ library' = lib
          /\ result' \in extractActionItems(transcript, lib)
    /\ UNCHANGED <<transcript, notExtractVars>>

\* candidates is the array decisions, as handed to removeDuplicateDecisions
MPExtractKeyDecisions ==
    /\ pc = "input"
    /\ pc' = "keyDecisions"
    /\ kind' = "decisions"
    /\ candidates' = ClauseCandidates(transcript, "decisions")
    /\ outcome' = "returned"
    /\ \E lib \in FuseBehaviours :
          /\ library' = lib
          /\ result' \in extractKeyDecisions(transcript, lib)
    /\ UNCHANGED <<transcript, notExtractVars>>

NextExtract == MPExtractActionItems \/ MPExtractKeyDecisions

SpecExtract == InitExtract /\ [][NextExtract]_vars


\* C17: extractActionItems returns at most 10 entries and extractKeyDecisions
\* at most 8, each list in non-increasing order of confidence, and a candidate
\* above the threshold that is not returned has no higher confidence than any
\* entry returned.
C17_SortedAndCapped ==
    pc \in {"actionItems", "keyDecisions"} =>
        /\ Len(result) <= IF kind = "actions" THEN 10 ELSE 8
        /\ \A i, j \in DOMAIN result :
              i < j => result[i].confidence >= result[j].confidence
        /\ \A c \in Range(candidates) : \A r \in Range(result) :
              (c.confidence > (IF kind = "actions" THEN 30 ELSE 40)
                 /\ c \notin Range(result))
              => c.confidence <= r.confidence

\* C17: more than ten different action items are above the threshold; ten of
\* two different confidences are returned and one of the lower confidence
\* is not
C17_Witness ==
    /\ pc = "actionItems"
    /\ Cardinality({c \in Range(candidates) : c.confidence > 30}) > 10
    /\ Len(result) = 10
    /\ result[1].confidence > result[10].confidence
    /\ \E c \in Range(candidates) :
          c \notin Range(result) /\ c.confidence = result[10].confidence


\* the text matches none of the indicators of its confidence function
NoIndicator(text, k) ==
    LET indicators == IF k = "actions" THEN ActionIndicators ELSE DecisionIndicators
    IN  \A n \in DOMAIN indicators : ~ TestWords(text, indicators[n])

\* C18: every action item returned has a confidence above 0.3 and every
\* decision returned one above 0.4, so a candidate whose text matches none of
\* the confidence indicators is never returned.
C18_AboveBaseConfidence ==
    pc \in {"actionItems", "keyDecisions"} =>
        /\ \A r \in Range(result) :
              r.confidence > (IF kind = "actions" THEN 30 ELSE 40)
        /\ \A c \in Range(candidates) :
              NoIndicator(c.text, kind) => \A r \in Range(result) : r.text # c.text

\* C18: an action found through 'going to' alone is among the candidates,
\* and other action items are returned
C18_Witness ==
    /\ pc = "actionItems"
    /\ result # <<>>
    /\ \E c \in Range(candidates) :
          /\ NoIndicator(c.text, "actions")
          /\ c.confidence = 30
          /\ Includes(c.text, <<"g","o","i","n","g"," ","t","o">>)


---------------------------------------------------------------------------
(* The responsible person of the action items                              *)

ResponsiblePieces ==
    {<<"J","o","h","n"," ","s","a","i","d"," ","h","e"," ","w","i","l","l"," ","f","i","x"," ","P","R","O","J","-","4","5"," ","b","y"," ","F","r","i","d","a","y","."," ">>,
     <<"B","o","b"," ","s","h","o","u","l","d"," ","r","e","v","i","e","w"," ","i","t","."," ">>,
     <<"t","a","s","k"," ","a","s","s","i","g","n","e","d"," ","t","o"," ","A","n","n"," ","n","o","w",";"," ">>,
     <<"t","h","e"," ","r","e","p","o","r","t"," ","i","s"," ","d","u","e"," ","t","o","d","a","y","."," ">>,
     <<"A","n","n"," ","i","s"," ","r","e","s","p","o","n","s","i","b","l","e"," ","f","o","r"," ","i","t",";"," ">>}
ResponsibleInputs == {Concat(ps) : ps \in SeqsUpTo(ResponsiblePieces, MaxParts)}

InitResponsible ==
    /\ pc = "input"
    /\ OtherIdle
    /\ transcript \in ResponsibleInputs
    /\ PipelineIdle
    /\ TicketIdle
    /\ ConfIdle
    /\ DedupIdle
    /\ SummaryIdle

SpecResponsible == InitResponsible /\ [][NextExtract]_vars

\* the capitalized words of text (an upper-case letter followed by lower-case
\* letters) that are followed by will / should / must / needs to or preceded
\* by assign / assigned to / responsible / owner
ResponsibleTokens(text) ==
    {Substring(text, p, p + 1 + RunLen(text, p + 1, LowerChars)) :
        p \in {p \in 0..(Len(text) - 1) :
                 /\ CharAt(text, p) \in UpperChars
                 /\ p = 0 \/ CharAt(text, p - 1) \notin WordChars
                 /\ RunLen(text, p + 1, LowerChars) >= 1
                 /\ \E e \in {p + 1 + RunLen(text, p + 1, LowerChars)} :
                       \/ /\ RunLen(text, e, SpaceChars) >= 1
                          /\ \E w \in ModalWords \ {<<"n","e","e","d"," ","t","o">>} :
                                OccursAtNoCase(text, w, e + RunLen(text, e, SpaceChars))
                       \/ \E w \in OwnerWords : \E q \in 0..(p - 1) :
                             /\ OccursAtNoCase(text, w, q)
                             /\ q + Len(w) < p
                             /\ RunLen(text, q + Len(w), SpaceChars) = p - q - Len(w)}}

\* C19: the responsible of an action item returned is a capitalized word of
\* the action text that is followed by will / should / must / needs to or
\* preceded by assign / assigned to / responsible / owner, and null when the
\* text holds no such word.
C19_ResponsibleIsCapitalized ==
    pc = "actionItems" =>
        \A r \in Range(result) :
            IF ResponsibleTokens(r.text) = {} THEN r.responsible = Null
            ELSE r.responsible \in ResponsibleTokens(r.text)


\* C20: for a transcript of any length with one to three qualifying
\* sentences, generateBasicSummary returns those sentences, each trimmed,
\* joined by ". " and ended by a period; with more than three, the number of
\* sentences selected is min(5, ceil(0.3 * sentenceCount)).
C20_FewSentencesVerbatim ==
    pc = "basicSummary" =>
        \A sentences \in {QualifyingSentences(transcript)} :
            /\ Len(sentences) \in 1..3 =>
                  summary = Join([i \in DOMAIN sentences |-> Trim(sentences[i])],
                                 <<".", " ">>) \o <<".">>
            /\ Len(sentences) > 3 =>
                  Len(topSentences) = Min({5, (3 * Len(sentences) + 9) \div 10})

---------------------------------------------------------------------------
(* withRetry (src/src/resolvers/meeting.handler.js)                        *)
(*                                                                         *)
(* fn is the caller's: each call returns a value or throws an error.       *)

MaxRetriesArgument == 4
DefaultMaxRetries == 3
DefaultDelay == 1000
RetryDelays == {0, 250, DefaultDelay}
FnValues == {"v1", "v2"}
FnErrors == {"e1", "e2"}

\* setTimeout(resolve, delay * attempt) without the attempt
RetryDelay_Constant(d, n) == d
\* setTimeout(resolve, delay * attempt)
RetryDelay(d, n) == d * n

notRetryVars ==
    <<transcript, ticketVars, confVars, dedupVars, summaryVars, argType, tier,
      library, contextTicket, calls, uploadVars, limiterVars, storageVars>>

InitRetry ==
    /\ pc = "input"
    /\ transcript = <<>>
    /\ OtherIdle
    /\ PipelineIdle
    /\ TicketIdle
    /\ ConfIdle
    /\ DedupIdle
    /\ SummaryIdle

\* for (...; attempt <= maxRetries; ...) has run out: throw lastError
ThrowLastError ==
    /\ pc' = "done"
    /\ outcome' = "thrown"
    /\ result' = lastError'

\* the call withRetry(fn, maxRetries, delay), up to the first call of fn
WithRetry ==
    /\ pc = "input"
    /\ maxRetries' \in 0..MaxRetriesArgument
    /\ delay' \in RetryDelays
    /\ attempt' = 1
    /\ UNCHANGED <<lastError, fnCalls, timers>>
    /\ IF attempt' <= maxRetries'
       THEN pc' = "fn" /\ UNCHANGED <<outcome, result>>
       ELSE ThrowLastError
    /\ UNCHANGED notRetryVars

\* return await fn()
FnReturns ==
    /\ pc = "fn"
    /\ \E v \in FnValues :
          /\ fnCalls' = Append(fnCalls, [returned |-> TRUE, value |-> v])
          /\ result' = v
    /\ pc' = "done"
    /\ outcome' = "returned"
    /\ UNCHANGED <<maxRetries, delay, attempt, lastError, timers, notRetryVars>>

\* fn throws or rejects: the catch block, and where it is the last attempt
\* the end of the loop
FnThrows ==
    /\ pc = "fn"
    /\ \E e \in FnErrors :
          /\ fnCalls' = Append(fnCalls, [returned |-> FALSE, value |-> e])
          /\ lastError' = e
    /\ IF attempt < maxRetries
       THEN /\ timers' = Append(timers, RetryDelay(delay, attempt))
            /\ pc' = "wait"
            /\ UNCHANGED <<attempt, outcome, result>>
       ELSE /\ attempt' = attempt + 1
            /\ ThrowLastError
            /\ UNCHANGED timers
    /\ UNCHANGED <<maxRetries, delay, notRetryVars>>

\* the timer fires: the next iteration
TimerFires ==
    /\ pc = "wait"
    /\ attempt' = attempt + 1
    /\ pc' = "fn"
    /\ UNCHANGED <<maxRetries, delay, lastError, fnCalls, timers, outcome, result,
                   notRetryVars>>

NextRetry == WithRetry \/ FnReturns \/ FnThrows \/ TimerFires

SpecRetry == InitRetry /\ [][NextRetry]_vars

\* C21: withRetry calls fn at most maxRetries times; it returns the result of
\* the first call that succeeds and calls fn no more; after maxRetries
\* failures it throws the error of the last attempt; it waits delay * attempt
\* between two attempts and not after the last one.
C21_RetryPolicy ==
    pc # "input" =>
        /\ Len(fnCalls) <= maxRetries
        /\ \A i \in DOMAIN fnCalls : fnCalls[i].returned => i = Len(fnCalls)
        /\ pc = "done" /\ outcome = "returned" =>
              /\ fnCalls # <<>>
              /\ fnCalls[Len(fnCalls)].returned
              /\ result = fnCalls[Len(fnCalls)].value
        /\ pc = "done" /\ outcome = "thrown" =>
              /\ Len(fnCalls) = maxRetries
              /\ \A i \in DOMAIN fnCalls : ~ fnCalls[i].returned
              /\ maxRetries >= 1 => result = fnCalls[maxRetries].value
        /\ pc = "done" => timers = [k \in 1..(Len(fnCalls) - 1) |-> delay * k]
        /\ pc = "fn" => timers = [k \in 1..Len(fnCalls) |-> delay * k]

\* C21: with the default of three attempts and a delay that is not 0, fn has
\* failed three times with different errors and the last error is thrown
\* after two waits
C21_Witness ==
    /\ pc = "done"
    /\ outcome = "thrown"
    /\ maxRetries = DefaultMaxRetries
    /\ delay = DefaultDelay
    /\ Len(fnCalls) = 3
    /\ fnCalls[2].value # fnCalls[3].value
    /\ result = fnCalls[3].value
    /\ Len(timers) = 2

---------------------------------------------------------------------------
(* The rate limiters: RateLimiter.isAllowed                                *)
(* (src/src/resolvers/meeting.handler.js) and isRateLimited                *)
(* (src/src/index.js)                                                      *)
(*                                                                         *)
(* Each keeps a Map from key to the timestamps of the calls it let         *)
(* through.  Date.now() does not go back.  A key stands for one resolver   *)
(* and one account, so its limit and window are always the same.           *)

MaxClock == 5
LimiterKeys == {"a", "b", "c"}
\* the arguments limit and windowMs that go with a key
KeyLimit(key) == CASE key = "a" -> 2 [] key = "b" -> 1 [] OTHER -> 0
KeyWindow(key) == CASE key = "a" -> 3 [] key = "b" -> 2 [] OTHER -> 2

\* the filter with a window shorter by one
ValidRequests_Short(userRequests, windowStart) ==
    SelectSeq(userRequests, LAMBDA timestamp : timestamp > windowStart + 1)
\* userRequests.filter(timestamp => timestamp > windowStart)
ValidRequests(userRequests, windowStart) ==
    SelectSeq(userRequests, LAMBDA timestamp : timestamp > windowStart)

\* the Map after if (!requests.has(key)) requests.set(key, [])
WithKey(map, key) ==
    IF key \in DOMAIN map THEN map ELSE map @@ (key :> <<>>)

\* the body the two limiters share: is the call let through, and the Map
\* it leaves
Limit(map, key, limit, windowMs, time) ==
    LET valid == ValidRequests(WithKey(map, key)[key], time - windowMs)
    IN  IF Len(valid) >= limit
        THEN [allowed |-> FALSE, map |-> WithKey(map, key)]
        ELSE [allowed |-> TRUE,
              map |-> [WithKey(map, key) EXCEPT ![key] = Append(valid, time)]]

notLimiterVars ==
    <<transcript, ticketVars, confVars, dedupVars, summaryVars, argType, tier,
      library, outcome, contextTicket, calls, uploadVars, retryVars, storageVars>>

\* a new RateLimiter, or the module index.js just loaded
InitLimiter ==
    /\ pc \in {"RateLimiter", "index"}
    /\ transcript = <<>>
    /\ calls = 0
    /\ UploadIdle
    /\ RetryIdle
    /\ StorageIdle
    /\ now = 0
    /\ requests = <<>>
    /\ admitted = [key \in LimiterKeys |-> <<>>]
    /\ PipelineIdle
    /\ TicketIdle
    /\ ConfIdle
    /\ DedupIdle
    /\ SummaryIdle

Limited(key, r) ==
    /\ requests' = r.map
    /\ admitted' = IF r.allowed THEN [admitted EXCEPT ![key] = Append(@, now)]
                   ELSE admitted
    /\ UNCHANGED <<pc, now, notLimiterVars>>

\* rateLimiter.isAllowed(key, limit, windowMs)
IsAllowed ==
    /\ pc = "RateLimiter"
    /\ \E key \in LimiterKeys :
       \E r \in {Limit(requests, key, KeyLimit(key), KeyWindow(key), now)} :
          /\ result' = [key |-> key, returned |-> r.allowed, allowed |-> r.allowed]
          /\ Limited(key, r)

\* isRateLimited(key, limit, windowMs)
IsRateLimited ==
    /\ pc = "index"
    /\ \E key \in LimiterKeys :
       \E r \in {Limit(requests, key, KeyLimit(key), KeyWindow(key), now)} :
          /\ result' = [key |-> key, returned |-> ~ r.allowed, allowed |-> r.allowed]
          /\ Limited(key, r)

\* time passes
Tick ==
    /\ now < MaxClock
    /\ now' = now + 1
    /\ UNCHANGED <<pc, requests, admitted, result, notLimiterVars>>

NextLimiter == IsAllowed \/ IsRateLimited \/ Tick

SpecLimiter == InitLimiter /\ [][NextLimiter]_vars

\* the timestamps a Map holds for a key
Timestamps(map, key) == IF key \in DOMAIN map THEN map[key] ELSE <<>>

\* C22: for every key, the call let through as number i + limit is at least
\* windowMs later than the one let through as number i; a call that is
\* rejected records no timestamp, and a call on one key changes no
\* timestamp of another key.
C22_AtMostLimitPerWindow ==
    /\ [](\A key \in DOMAIN admitted : \A i \in DOMAIN admitted[key] :
            (i + KeyLimit(key)) \in DOMAIN admitted[key] =>
                admitted[key][i + KeyLimit(key)] - admitted[key][i] >= KeyWindow(key))
    /\ [][(IsAllowed \/ IsRateLimited) =>
            /\ \A key \in LimiterKeys \ {result'.key} :
                  Timestamps(requests', key) = Timestamps(requests, key)
            /\ ~ result'.allowed =>
                  Timestamps(requests', result'.key) = Timestamps(requests, result'.key)
         ]_vars

\* C22: key a, with limit 2 in a window of 3, has been let through twice,
\* rejected, and let through a third time once the window had passed
C22_Witness ==
    /\ Len(admitted["a"]) = 3
    /\ admitted["a"][3] - admitted["a"][1] = KeyWindow("a")
    /\ admitted["b"] # <<>>
    /\ "c" \in DOMAIN requests

---------------------------------------------------------------------------
(* The resolvers that keep a list per issue in the Forge storage           *)
(* (src/src/index.js, src/src/resolvers/index.js,                          *)
(* src/src/resolvers/meeting-context-cjs.js,                               *)
(* src/src/handlers/upload-meeting-cjs.js)                                 *)
(*                                                                         *)
(* A meeting is its id; the id of a call is its number.  Of the record     *)
(* under meetings:<issueKey> the fields meetings, totalMeetings and        *)
(* syncHistory are kept.                                                   *)

HistoryLimit == 10
DemoMeetings == 3

\* storage.get(key): undefined for a key never set
Found(value) == [found |-> TRUE, value |-> value]
NotFound == [found |-> FALSE]
StorageGet(store, key) == IF key \in DOMAIN store THEN Found(store[key]) ELSE NotFound
\* storage.set(key, value)
StorageSet(store, key, value) ==
    [k \in DOMAIN store \cup {key} |-> IF k = key THEN value ELSE store[k]]

\* await storage.get(storageKey) || { meetings: [], totalMeetings: 0, syncHistory: [] }
OrEmpty(read) ==
    IF read.found THEN read.value
    ELSE [meetings |-> <<>>, totalMeetings |-> 0, syncHistory |-> <<>>]

\* getMeetingContext: the demo data stored on first access (the ids of its
\* meetings are written -1, -2, -3)
DemoData ==
    [meetings |-> [n \in 1..DemoMeetings |-> 0 - n],
     totalMeetings |-> 3,
     syncHistory |-> <<[type |-> "initial", count |-> 3]>>]

\* syncMeetings: meetingData as stored
SyncedData(read, id) ==
    LET meetingData == OrEmpty(read)
        meetings    == <<id>> \o meetingData.meetings
        syncHistory == <<[type |-> "manual-sync", count |-> 1, meetingId |-> id]>>
                       \o meetingData.syncHistory
    IN  [meetings |-> meetings,
         totalMeetings |-> Len(meetings),
         syncHistory |-> IF Len(syncHistory) > HistoryLimit
                         THEN SubSeq(syncHistory, 1, HistoryLimit)
                         ELSE syncHistory]

\* addMeeting with totalMeetings taken before the new meeting is added
AddedData_StaleTotal(read, id) ==
    LET meetingData == OrEmpty(read)
    IN  [meetings |-> <<id>> \o meetingData.meetings,
         totalMeetings |-> Len(meetingData.meetings),
         syncHistory |-> <<[type |-> "manual-add", count |-> 1, meetingId |-> id]>>
                         \o meetingData.syncHistory]

\* addMeeting: meetingData as stored
AddedData(read, id) ==
    LET meetingData == OrEmpty(read)
        meetings    == <<id>> \o meetingData.meetings
    IN  [meetings |-> meetings,
         totalMeetings |-> Len(meetings),
         syncHistory |-> <<[type |-> "manual-add", count |-> 1, meetingId |-> id]>>
                         \o meetingData.syncHistory]

\* add-meeting-func: existingData as stored
AddMeetingFunc(read, id) ==
    LET meetings == (IF read.found THEN read.value.meetings ELSE <<>>) \o <<id>>
    IN  [meetings |-> meetings, totalMeetings |-> Len(meetings)]

\* the upload resolver and handler: issueMeetings as stored
IssueMeetings(read, id) == (IF read.found THEN read.value ELSE <<>>) \o <<id>>

IssueKey == "AB-1"
Resolvers ==
    {"addMeeting", "syncMeetings", "add-meeting-func", "uploadMeetingFile",
     "uploadMeetingHandler"}
Uploads == {"uploadMeetingFile", "uploadMeetingHandler"}
\* the key of the list a resolver appends to
ListKey(resolver) ==
    [prefix |-> CASE resolver \in {"addMeeting", "syncMeetings"} -> "meetings:"
                  [] resolver = "add-meeting-func" -> "meeting-"
                  [] OTHER -> "meetings_",
     issueKey |-> IssueKey, meetingId |-> 0]
\* meeting_<issueKey>_<meetingId>
RecordKey(id) == [prefix |-> "meeting_", issueKey |-> IssueKey, meetingId |-> id]
\* what a resolver sets under its list key, having read the value read
Updated(resolver, read, id) ==
    CASE resolver = "addMeeting" -> AddedData(read, id)
      [] resolver = "syncMeetings" -> SyncedData(read, id)
      [] resolver = "add-meeting-func" -> AddMeetingFunc(read, id)
      [] OTHER -> IssueMeetings(read, id)

---------------------------------------------------------------------------
(* Resolver calls that overlap                                             *)

MaxInvocations == 3
Invocations == {1, 2}
Idle == [resolver |-> "none", pc |-> "idle", id |-> 0, read |-> NotFound]

notStorageVars ==
    <<pc, transcript, ticketVars, confVars, dedupVars, summaryVars, pipelineVars,
      uploadVars, retryVars, limiterVars>>

InitStorage ==
    /\ pc = "input"
    /\ transcript = <<>>
    /\ calls = 0
    /\ UploadIdle
    /\ RetryIdle
    /\ LimiterIdle
    /\ storage = <<>>
    /\ invocations = [p \in Invocations |-> Idle]
    /\ responses = {}
    /\ PipelineIdle
    /\ TicketIdle
    /\ ConfIdle
    /\ DedupIdle
    /\ SummaryIdle

\* the call ends with this answer
Answers(p, success) ==
    /\ responses' = responses \cup {[id |-> invocations[p].id,
                                     resolver |-> invocations[p].resolver,
                                     success |-> success]}
    /\ invocations' = [invocations EXCEPT ![p] = Idle]

\* a call arrives; one whose payload is refused (rate limit, issue key,
\* transcript) is answered with a failure before any storage call
Invoke(p) ==
    /\ invocations[p].pc = "idle"
    /\ calls < MaxInvocations
    /\ calls' = calls + 1
    /\ \E resolver \in Resolvers, valid \in BOOLEAN :
          IF valid \/ resolver = "add-meeting-func"
          THEN /\ invocations' =
                     [invocations EXCEPT ![p] =
                        [resolver |-> resolver,
                         pc |-> IF resolver \in Uploads THEN "store" ELSE "get",
                         id |-> calls', read |-> NotFound]]
               /\ UNCHANGED responses
          ELSE /\ responses' = responses \cup
                     {[id |-> calls', resolver |-> resolver, success |-> FALSE]}
               /\ UNCHANGED invocations
    /\ UNCHANGED <<storage, notStorageVars>>

\* await storage.set(storageKey, meetingData) of the uploads
StoreRecord(p) ==
    /\ invocations[p].pc = "store"
    /\ storage' = StorageSet(storage, RecordKey(invocations[p].id),
                             [id |-> invocations[p].id])
    /\ invocations' = [invocations EXCEPT ![p].pc = "get"]
    /\ UNCHANGED <<calls, responses, notStorageVars>>

\* await storage.get(...)
ReadList(p) ==
    /\ invocations[p].pc = "get"
    /\ invocations' =
          [invocations EXCEPT ![p].pc = "set",
              ![p].read = StorageGet(storage, ListKey(invocations[p].resolver))]
    /\ UNCHANGED <<calls, storage, responses, notStorageVars>>

\* await storage.set(...) of the list, and the answer
WriteList(p) ==
    /\ invocations[p].pc = "set"
    /\ storage' = StorageSet(storage, ListKey(invocations[p].resolver),
                             Updated(invocations[p].resolver, invocations[p].read,
                                     invocations[p].id))
    /\ Answers(p, TRUE)
    /\ UNCHANGED <<calls, notStorageVars>>

\* the storage call the invocation waits for throws: the catch block answers
StorageThrows(p) ==
    /\ invocations[p].pc \in {"store", "get", "set"}
    /\ Answers(p, FALSE)
    /\ UNCHANGED <<calls, storage, notStorageVars>>

NextStorage ==
    \E p \in Invocations :
        \/ Invoke(p)
        \/ StoreRecord(p)
        \/ ReadList(p)
        \/ WriteList(p)
        \/ StorageThrows(p)

SpecStorage == InitStorage /\ [][NextStorage]_vars

\* the list stored under a list key
StoredList(key) ==
    IF key \notin DOMAIN storage THEN <<>>
    ELSE IF key.prefix = "meetings_" THEN storage[key]
    ELSE storage[key].meetings

\* C23: once the calls for an issue have ended, each list in storage holds
\* as many entries as calls that append to it have returned success,
\* whether or not the calls overlapped between storage.get and storage.set.
C23_NoLostAppend ==
    (\A p \in Invocations : invocations[p].pc = "idle") =>
        \A resolver \in Resolvers :
            Len(StoredList(ListKey(resolver))) =
                Cardinality({r \in responses :
                               r.success /\ ListKey(r.resolver) = ListKey(resolver)})


\* C27: a request uploadMeetingHandler has answered with a failure has left
\* nothing in storage, neither its meeting record nor an entry in the list
\* of the issue; one it has answered with success has left both.
C27_UploadAllOrNothing ==
    \A r \in responses :
        r.resolver = "uploadMeetingHandler" =>
            LET listed == \E i \in DOMAIN StoredList(ListKey(r.resolver)) :
                              StoredList(ListKey(r.resolver))[i] = r.id
            IN  IF r.success
                THEN RecordKey(r.id) \in DOMAIN storage /\ listed
                ELSE RecordKey(r.id) \notin DOMAIN storage /\ ~ listed

---------------------------------------------------------------------------
(* getMeetingContext, syncMeetings and addMeeting of src/src/index.js      *)
(* called one after the other for one issue.  calls counts the meetings    *)
(* created so far.                                                         *)

MaxSequence == 12
MeetingsKey == ListKey("addMeeting")

notMeetingsVars ==
    <<pc, transcript, ticketVars, confVars, dedupVars, summaryVars, pipelineVars,
      file, mcpEnabled, db, processedMeeting, jira, retryVars, limiterVars,
      invocations, responses>>

InitMeetings ==
    /\ pc = "input"
    /\ transcript = <<>>
    /\ calls = 0
    /\ UploadIdle
    /\ RetryIdle
    /\ LimiterIdle
    /\ StorageIdle
    /\ PipelineIdle
    /\ TicketIdle
    /\ ConfIdle
    /\ DedupIdle
    /\ SummaryIdle

\* the call is refused by the rate limit or the issue key, or a storage call
\* throws: the resolver returns success false and storage is as it was
Refused ==
    /\ response' = [success |-> FALSE, error |-> "refused"]
    /\ UNCHANGED <<storage, calls>>

Succeeded == response' = [success |-> TRUE, error |-> "none"]

GetMeetingContext ==
    /\ \/ Refused
       \/ /\ Succeeded
          /\ UNCHANGED calls
          /\ storage' = IF StorageGet(storage, MeetingsKey).found THEN storage
                        ELSE StorageSet(storage, MeetingsKey, DemoData)
    /\ UNCHANGED notMeetingsVars

SyncMeetings ==
    /\ \/ Refused
       \/ /\ calls < MaxSequence
          /\ calls' = calls + 1
          /\ Succeeded
          /\ storage' = StorageSet(storage, MeetingsKey,
                                   SyncedData(StorageGet(storage, MeetingsKey), calls'))
    /\ UNCHANGED notMeetingsVars

AddMeeting ==
    /\ \/ Refused
       \/ /\ calls < MaxSequence
          /\ calls' = calls + 1
          /\ Succeeded
          /\ storage' = StorageSet(storage, MeetingsKey,
                                   AddedData(StorageGet(storage, MeetingsKey), calls'))
    /\ UNCHANGED notMeetingsVars

NextMeetings == GetMeetingContext \/ SyncMeetings \/ AddMeeting

SpecMeetings == InitMeetings /\ [][NextMeetings]_vars

\* C28: the syncHistory of a record stored under meetings:<issueKey> never
\* holds more than 10 entries.
C28_HistoryAtMostTen ==
    \A key \in DOMAIN storage : Len(storage[key].syncHistory) <= 10

\* C29: in every record stored under meetings:<issueKey> totalMeetings is
\* meetings.length, and each successful syncMeetings or addMeeting puts one
\* new meeting in front of the meetings stored before, which stay as they were.
C29_TotalIsLength ==
    /\ [](\A key \in DOMAIN storage :
             storage[key].totalMeetings = Len(storage[key].meetings))
    /\ [][((SyncMeetings \/ AddMeeting) /\ response'.success) =>
             /\ Len(storage'[MeetingsKey].meetings) = Len(StoredList(MeetingsKey)) + 1
             /\ Head(storage'[MeetingsKey].meetings) = calls'
             /\ Tail(storage'[MeetingsKey].meetings) = StoredList(MeetingsKey)
         ]_vars

\* C29: the demo data has been stored, and meetings have been synced and
\* added in front of it
C29_Witness ==
    /\ MeetingsKey \in DOMAIN storage
    /\ storage[MeetingsKey].totalMeetings = DemoMeetings + 2
    /\ \E i, j \in DOMAIN storage[MeetingsKey].syncHistory :
          /\ storage[MeetingsKey].syncHistory[i].type = "manual-sync"
          /\ storage[MeetingsKey].syncHistory[j].type = "manual-add"
    /\ storage[MeetingsKey].meetings[DemoMeetings + 2] = 0 - DemoMeetings


---------------------------------------------------------------------------
(* MeetingService (src/src/services/JiraService.js) on the DatabaseService *)
(* of src/unnamed/part_008.  FORGE_SQL_ENABLED is not set: the service     *)
(* keeps its tables in the Forge storage, one key per row.  With the flag  *)
(* set every statement throws 'Forge SQL not available in this             *)
(* environment' and no row is ever stored.  Keys are strings and are kept  *)
(* as the sequences of their characters.                                   *)

MeetingsTable == <<"m","e","e","t","i","n","g","s">>
TicketMentionsTable == <<"t","i","c","k","e","t","_","m","e","n","t","i","o","n","s">>
\* `${value}` of a string, and of an object literal
ObjectObject == <<"[","o","b","j","e","c","t"," ","O","b","j","e","c","t","]">>
TemplateString(value) == IF value.type = "object" THEN ObjectObject ELSE value.text
StringValue(text) == [type |-> "string", text |-> text]
\* { meeting_id: meetingId } and { id: meetingId }
ObjectValue(text) == [type |-> "object", text |-> text]

\* const key = `${table}:${id}`
TableKey(table, id) == table \o <<":">> \o TemplateString(id)
\* `meetings:${ticketKey}`
CacheKey(ticketKey) == MeetingsTable \o <<":">> \o ticketKey
AudioKey(meetingId) == <<"a","u","d","i","o">> \o <<":">> \o meetingId
MeetingKey(meetingId, part) == <<"m","e","e","t","i","n","g">> \o <<":">> \o meetingId \o <<":">> \o part

StartsWith(key, prefix) == Len(key) >= Len(prefix) /\ OccursAt(key, prefix, 0)

\* storage.delete(key)
StorageDelete(store, key) == [k \in DOMAIN store \ {key} |-> store[k]]

\* uuidv4(): the n-th meeting's, and that of its i-th mention
Uuid(n) == <<"u", BlockDigits[n]>>
MentionUuid(n, i) == Uuid(n) \o <<"-", BlockDigits[i]>>

\* the rows and the cached lists, as stored
MeetingRow(id, time, text) ==
    [table |-> "meetings", id |-> id, meeting_id |-> <<>>, ticket_id |-> <<>>,
     start_time |-> time, transcript_text |-> text, list |-> <<>>]
MentionRow(id, meetingId, ticketId) ==
    [table |-> "ticket_mentions", id |-> id, meeting_id |-> meetingId,
     ticket_id |-> ticketId, start_time |-> 0, transcript_text |-> <<>>, list |-> <<>>]
CachedList(meetings) ==
    [table |-> "cache", id |-> <<>>, meeting_id |-> <<>>, ticket_id |-> <<>>,
     start_time |-> 0, transcript_text |-> <<>>, list |-> meetings]

\* DatabaseService.insertStorage
insertStorage(store, table, row) == StorageSet(store, TableKey(table, StringValue(row.id)), row)

\* DatabaseService.findByIdStorage
findByIdStorage(store, table, id) == StorageGet(store, TableKey(table, id))

\* DatabaseService.delete(table, id)
delete(store, table, id) == StorageDelete(store, TableKey(table, id))

\* meetings.sort((a, b) => new Date(b.start_time) - new Date(a.start_time))
ByStartTimeDesc(rows) ==
    CHOOSE sorted \in [1..Cardinality(rows) -> rows] :
        /\ \A i, j \in DOMAIN sorted : i < j =>
              /\ sorted[i] # sorted[j]
              /\ sorted[i].start_time >= sorted[j].start_time

\* DatabaseService.simulateSelectMeetings: matchesParams is true of every row
simulateSelectMeetings(store, params) ==
    ByStartTimeDesc({store[k] : k \in {key \in DOMAIN store :
                                          StartsWith(key, <<"m","e","e","t","i","n","g",":">>)}})

\* DatabaseService.simulateQuery for the SELECT of getMeetingsForTicket
simulateQuery(store, params) == simulateSelectMeetings(store, params)

\* MeetingService.processTicketMentions: one row per mention
RECURSIVE processTicketMentions(_, _, _, _)
processTicketMentions(store, n, ticketMentions, i) ==
    IF i > Len(ticketMentions) THEN store
    ELSE processTicketMentions(
            insertStorage(store, TicketMentionsTable,
                          MentionRow(MentionUuid(n, i), Uuid(n), ticketMentions[i].ticketId)),
            n, ticketMentions, i + 1)

MaxStored == 2
DbTranscripts == UploadTranscripts \ {<<>>}
DbTickets == {<<"A","B","-","1">>, <<"C","D","-","2">>}
NoCall == [meetingId |-> <<>>, ticket |-> <<>>, forceRefresh |-> FALSE,
           meetings |-> <<>>, error |-> "none"]

notDatabaseVars ==
    <<ticketVars, confVars, dedupVars, summaryVars, argType, tier, library,
      contextTicket, uploadVars, retryVars, limiterVars, invocations, responses>>

InitDatabase ==
    /\ pc = "input"
    /\ transcript = <<>>
    /\ calls = 0
    /\ storage = <<>>
    /\ outcome = "none"
    /\ result = NoCall
    /\ argType = "string"
    /\ tier = "basic"
    /\ library = Dependable
    /\ contextTicket = <<>>
    /\ invocations = <<>>
    /\ responses = {}
    /\ UploadIdle
    /\ RetryIdle
    /\ LimiterIdle
    /\ TicketIdle
    /\ ConfIdle
    /\ DedupIdle
    /\ SummaryIdle

\* MeetingService.processTextTranscript: calls counts the meetings stored
MSProcessTextTranscript ==
    /\ calls < MaxStored
    /\ calls' = calls + 1
    /\ \E s \in DbTranscripts :
          \E analysis \in {analyzeTranscript(s, Dependable)} :
             /\ transcript' = s
             /\ storage' = processTicketMentions(
                              insertStorage(storage, MeetingsTable,
                                            MeetingRow(Uuid(calls'), calls', s)),
                              calls', analysis.ticketMentions, 1)
    /\ pc' = "processTextTranscript"
    /\ outcome' = "returned"
    /\ result' = [NoCall EXCEPT !.meetingId = Uuid(calls')]
    /\ UNCHANGED notDatabaseVars

\* MeetingService.getMeetingsForTicket
GetMeetingsForTicket ==
    /\ \E ticketKey \in DbTickets, forceRefresh \in BOOLEAN :
          \E cached \in {StorageGet(storage, CacheKey(ticketKey))} :
             IF ~ forceRefresh /\ cached.found
             THEN /\ result' = [NoCall EXCEPT !.ticket = ticketKey,
                                              !.forceRefresh = forceRefresh,
                                              !.meetings = cached.value.list]
                  /\ UNCHANGED storage
             ELSE \E meetings \in {simulateQuery(storage, ticketKey)} :
                     /\ storage' = StorageSet(storage, CacheKey(ticketKey),
                                              CachedList(meetings))
                     /\ result' = [NoCall EXCEPT !.ticket = ticketKey,
                                                 !.forceRefresh = forceRefresh,
                                                 !.meetings = meetings]
    /\ pc' = "getMeetingsForTicket"
    /\ outcome' = "returned"
    /\ UNCHANGED <<transcript, calls, notDatabaseVars>>

\* MeetingService.deleteMeeting, for the id of a stored meeting or another
DeleteMeeting ==
    /\ \E n \in 1..(MaxStored + 1) :
          \E meeting \in {findByIdStorage(storage, MeetingsTable, StringValue(Uuid(n)))} :
             IF ~ meeting.found
             THEN /\ outcome' = "thrown"
                  /\ result' = [NoCall EXCEPT !.meetingId = Uuid(n),
                                              !.error = "Meeting not found"]
                  /\ UNCHANGED storage
             ELSE /\ outcome' = "returned"
                  /\ result' = [NoCall EXCEPT !.meetingId = Uuid(n)]
                  /\ storage' =
                        StorageDelete(
                          StorageDelete(
                            StorageDelete(
                              delete(delete(storage, TicketMentionsTable,
                                            ObjectValue(Uuid(n))),
                                     MeetingsTable, ObjectValue(Uuid(n))),
                              AudioKey(Uuid(n))),
                            MeetingKey(Uuid(n), <<"f","i","l","e">>)),
                          MeetingKey(Uuid(n), <<"d","a","t","a">>))
    /\ pc' = "deleteMeeting"
    /\ UNCHANGED <<transcript, calls, notDatabaseVars>>

NextDatabase == MSProcessTextTranscript \/ GetMeetingsForTicket \/ DeleteMeeting

SpecDatabase == InitDatabase /\ [][NextDatabase]_vars

\* the rows of a table in the storage
Rows(table) == {storage[key] : key \in {k \in DOMAIN storage : storage[k].table = table}}

\* C24: after deleteMeeting(meetingId) has returned, findById('meetings',
\* meetingId) finds nothing and no stored mention has meeting_id = meetingId;
\* for a meeting that does not exist deleteMeeting fails with 'Meeting not
\* found' and leaves the storage as it was.
C24_DeleteRemovesMeeting ==
    /\ []((pc = "deleteMeeting" /\ outcome = "returned") =>
            /\ ~ findByIdStorage(storage, MeetingsTable,
                                 StringValue(result.meetingId)).found
            /\ \A row \in Rows("ticket_mentions") : row.meeting_id # result.meetingId)
    /\ [][(DeleteMeeting /\ \A row \in Rows("meetings") : row.id # result'.meetingId) =>
             /\ outcome' = "thrown"
             /\ result'.error = "Meeting not found"
             /\ storage' = storage
         ]_vars

\* C26: getMeetingsForTicket(K, true) returns every stored meeting whose
\* transcript mentions K, and only meetings that mention K, most recent
\* first and at most 20.
C26_StoreThenQuery ==
    (pc = "getMeetingsForTicket" /\ result.forceRefresh) =>
        /\ \A row \in Rows("meetings") :
              result.ticket \in IdsOf(TP_extractTicketMentions(row.transcript_text)) =>
                 \E i \in DOMAIN result.meetings : result.meetings[i].id = row.id
        /\ \A i \in DOMAIN result.meetings :
              result.ticket \in
                 IdsOf(TP_extractTicketMentions(result.meetings[i].transcript_text))
        /\ \A i, j \in DOMAIN result.meetings :
              i < j => result.meetings[i].start_time >= result.meetings[j].start_time
        /\ Len(result.meetings) <= 20


---------------------------------------------------------------------------
(* JiraService.bulkUpdateWithMeetingContext                                *)
(* (src/src/services/meeting-processor.js).  Jira is the platform's: a     *)
(* request is answered with a status, and a status that is not ok makes    *)
(* the method that sent the request throw.                                 *)

\* /^[A-Z]{2,10}-\d+$/.test(issueKey)
validateIssueKey(issueKey) == IsTicketId(issueKey)

Returned(value) == [thrown |-> FALSE, value |-> value, message |-> "none"]
Thrown(message) == [thrown |-> TRUE, value |-> FALSE, message |-> message]

\* issueExists, when Jira answers getIssue with the status
issueExists(issueKey, status) ==
    IF ~ validateIssueKey(issueKey) THEN Returned(FALSE)
    ELSE IF status = "200" THEN Returned(TRUE)
    ELSE IF status = "404" \/ Includes(issueKey, <<"4","0","4">>) THEN Returned(FALSE)
    ELSE Thrown("Failed to fetch issue")

\* one pass of the loop: what it adds to results, given the status Jira
\* answers to getIssue, to the comment and to the labels
BulkResults(ticketId, issue, comment, labels) ==
    LET exists == issueExists(ticketId, issue)
        failure(message) == [ticketId |-> ticketId, success |-> FALSE,
                             error |-> message, commentId |-> "none"]
        success == [ticketId |-> ticketId, success |-> TRUE,
                    error |-> "none", commentId |-> "10001"]
    IN  IF exists.thrown THEN <<failure(exists.message)>>
        ELSE IF ~ exists.value THEN <<failure("Issue not found")>>
        ELSE IF comment # "200" THEN <<failure("Failed to add comment")>>
        ELSE IF labels # "200" THEN <<success, failure("Failed to add labels")>>
        ELSE <<success>>

MaxMentions == 3
BulkTickets == {<<"A","B","-","1">>, <<"C","D","-","2">>, <<"a","b","-","1">>}
JiraStatuses == {"200", "404", "500"}

notBulkVars ==
    <<transcript, tpMentions, confVars, dedupVars, summaryVars, argType, tier,
      library, contextTicket, uploadVars, laterVars>>

InitBulk ==
    /\ pc = "loop"
    /\ transcript = <<>>
    /\ mentions \in SeqsUpTo({[ticketId |-> t] : t \in BulkTickets}, MaxMentions)
    /\ tpMentions = <<>>
    /\ calls = 0
    /\ outcome = "none"
    /\ result = <<>>
    /\ argType = "string"
    /\ tier = "basic"
    /\ library = Dependable
    /\ contextTicket = <<>>
    /\ UploadIdle
    /\ LaterIdle
    /\ ConfIdle
    /\ DedupIdle
    /\ SummaryIdle

\* the body of the loop for the next mention; calls counts the mentions done
BulkUpdateMention ==
    /\ pc = "loop"
    /\ calls < Len(mentions)
    /\ calls' = calls + 1
    /\ \E issue \in JiraStatuses, comment \in JiraStatuses, labels \in JiraStatuses :
          result' = result \o BulkResults(mentions[calls'].ticketId, issue, comment, labels)
    /\ UNCHANGED <<pc, mentions, outcome, notBulkVars>>

\* return results
BulkReturn ==
    /\ pc = "loop"
    /\ calls = Len(mentions)
    /\ pc' = "returned"
    /\ outcome' = "returned"
    /\ UNCHANGED <<mentions, calls, result, notBulkVars>>

NextBulk == BulkUpdateMention \/ BulkReturn

SpecBulk == InitBulk /\ [][NextBulk]_vars

\* C25: bulkUpdateWithMeetingContext returns, and returns one result per
\* ticket mention in the order of the mentions, whichever requests fail;
\* every mention is processed.
C25_OneResultPerMention ==
    /\ pc = "loop" => Len(result) = calls
    /\ pc = "returned" =>
          /\ outcome = "returned"
          /\ calls = Len(mentions)
          /\ Len(result) = Len(mentions)
          /\ \A i \in DOMAIN result : result[i].ticketId = mentions[i].ticketId

=============================================================================
